---- MODULE Spec2Model ----
(***************************************************************************)
(* Model of the draw-and-guess game of tianjucun/test-ai-code.             *)
(*                                                                         *)
(* Part 1 - the canvas history of DrawingCanvas.tsx: the React state       *)
(* history / historyIndex / isDrawing, the pixels of the <canvas> element, *)
(* and one action per event handler or imperative-handle method.  A        *)
(* handler runs against the state of the latest render and its state       *)
(* updates are applied before the next handler runs, so every handler is   *)
(* one atomic step.                                                        *)
(*                                                                         *)
(* Part 2 - the browser-side AIService of aiService.ts: the online/offline *)
(* flag and the steps of each guessImage request (mock delay, fetch,       *)
(* body parsing, abort timer).                                             *)
(*                                                                         *)
(* Part 3 - the server-side AIService of errorHandler.ts: guessImage with  *)
(* its race between the OpenAI call and the timeout timer, the fallback    *)
(* response, and checkServiceHealth.                                       *)
(*                                                                         *)
(* Part 4 - the useAI hook and GamePage: health checks, the mode button    *)
(* and the feedback handler.                                               *)
(*                                                                         *)
(* Part 5 - the Express side of the server: the POST /api/ai-guess route   *)
(* with validateRequest, and SimpleCache with cacheMiddleware.             *)
(*                                                                         *)
(* Indices follow the source: historyIndex is 0-based and -1 for the empty *)
(* history; At(h, i) reads h[i] as JavaScript does.                        *)
(***************************************************************************)
EXTENDS Integers, Sequences, FiniteSets, TLC

\* ------------------------------------------------------------------------
\* Program constants
\* ------------------------------------------------------------------------

\* DrawingCanvas.tsx:99  if (newHistory.length > 50)
MaxHistory == 50

\* Pixel contents of the canvas are abstract values.  A fresh <canvas> is
\* transparent; fillRect with '#ffffff' makes it white; the d-th call of
\* ctx.stroke() leaves the content Ink(d), different from all earlier ones.
Transparent == 0
White == 1
Ink(d) == White + d

\* const [shapes, setShapes] = useState('none'): setShapes is never called.
shapes == "none"

\* ------------------------------------------------------------------------
\* Bounds of the exploration
\* ------------------------------------------------------------------------

\* commits explored after the starting state
MaxCommits == 3
\* ctx.stroke() calls explored after the starting state
MaxDraws == 1
\* clock ticks explored after the starting state
MaxTicks == 1
\* undo is followed while the cursor is less than MaxBack entries behind
\* the newest entry
MaxBack == 2

VARIABLES
    history,        \* useState<DrawingHistory[]>([])
    historyIndex,   \* useState(-1)
    isDrawing,      \* useState(false)
    tool,           \* useState('brush')
    surface,        \* pixels of canvasRef.current
    now,            \* Date.now()
    commits,        \* number of ImageData objects created by saveToHistory
    draws,          \* number of ctx.stroke() calls so far
    consecutive,    \* commits since construction or the last undo / redo
    start,          \* number of commits of the starting state
    lastOp,         \* the handler that ran last
    prev,           \* what the state was before it ran, see Canvas
    result          \* what exportImage returned / delivered, if it ran last

canvasVars == <<history, historyIndex, isDrawing, tool, surface, now,
                commits, draws, consecutive, start, lastOp, prev, result>>

VARIABLES
    isOnlineMode,   \* AIService.isOnlineMode of the exported aiService
    req             \* the guessImage calls, see IdleRequest

clientVars == <<isOnlineMode, req>>

VARIABLES
    apiKey,         \* process.env.OPENAI_API_KEY is set and not empty
    openai,         \* AIService.openai is not null (server)
    isInitialized,  \* AIService.isInitialized (server)
    sreq,           \* the server-side guessImage calls, see IdleServerRequest
    shealth         \* the checkServiceHealth calls, see IdleListing

VARIABLES
    route,          \* the POST /api/ai-guess requests, see IdleRoute
    store,          \* SimpleCache.cache, the Map of the exported cache
    got,            \* the last call of cache.get and what it returned
    web,            \* the last request that went through cacheMiddleware
    clock           \* Date.now() of the server

\* the Express side of the server, outside AIService
backendVars == <<route, store, got, web, clock>>

serverVars == <<apiKey, openai, isInitialized, sreq, shealth, backendVars>>

VARIABLES
    hook,           \* useAI state: isAnalyzing, lastGuess, error, isOnline
    health,         \* the checkHealth calls of the hook, see IdleCheck
    fb,             \* the handleFeedback calls of GamePage, see IdleFeedback
    showFeedback,   \* GamePage useState(false)
    gameScore,      \* GamePage useState(0)
    clicks,         \* clicks on the mode button so far
    analysis        \* the analyzeImage calls, see NoAnalysis

pageVars == <<hook, health, fb, showFeedback, gameScore, clicks, analysis>>

vars == <<canvasVars, clientVars, serverVars, pageVars>>

\* what the handlers of the canvas (the tool buttons apart), of the
\* browser-side service and of the server leave alone
offCanvas == <<tool, clientVars, serverVars, pageVars>>
offClient == <<canvasVars, serverVars, pageVars>>
offServer == <<canvasVars, clientVars, pageVars, backendVars>>

\* ------------------------------------------------------------------------
\* Pure helpers
\* ------------------------------------------------------------------------

\* h[i] with JavaScript's 0-based index
At(h, i) == h[i + 1]

\* One DrawingHistory entry.  obj is the identity of the ImageData object
\* that getImageData allocated: two entries may hold equal pixels and equal
\* timestamps and still be different snapshots.
Snapshot(pixels, ts, obj) ==
    [imageData |-> pixels, timestamp |-> ts, obj |-> obj]

\* saveToHistory without the length limit
saveToHistory_NoLimit(h, i, pixels, ts, obj) ==
    LET newHistory == Append(SubSeq(h, 1, i + 1), Snapshot(pixels, ts, obj))
    IN  [history |-> newHistory, historyIndex |-> Len(newHistory) - 1]

\* saveToHistory with pop() in place of shift(): the newest entry is dropped
saveToHistory_Pop(h, i, pixels, ts, obj) ==
    LET newHistory == Append(SubSeq(h, 1, i + 1), Snapshot(pixels, ts, obj))
    IN  IF Len(newHistory) > MaxHistory
        THEN [history |-> SubSeq(newHistory, 1, MaxHistory), historyIndex |-> i]
        ELSE [history |-> newHistory, historyIndex |-> Len(newHistory) - 1]

\* saveToHistory without slice(0, historyIndex + 1): the redo tail is kept
saveToHistory_NoSlice(h, i, pixels, ts, obj) ==
    LET newHistory == Append(h, Snapshot(pixels, ts, obj))
    IN  IF Len(newHistory) > MaxHistory
        THEN [history |-> Tail(newHistory), historyIndex |-> Len(h) - 1]
        ELSE [history |-> newHistory, historyIndex |-> Len(newHistory) - 1]

\* The body of saveToHistory on the rendered state (h, i): the new history
\* and the new cursor.
saveToHistory(h, i, pixels, ts, obj) ==
    LET newHistory == Append(SubSeq(h, 1, i + 1), Snapshot(pixels, ts, obj))
    IN  IF Len(newHistory) > MaxHistory
        THEN [history |-> Tail(newHistory), historyIndex |-> i]
        ELSE [history |-> newHistory, historyIndex |-> Len(newHistory) - 1]

\* canUndo with >= in place of >
canUndo_Inclusive == historyIndex >= 0

canUndo == historyIndex > 0
canRedo == historyIndex < Len(history) - 1

\* canvas.toDataURL(`image/${format}`, quality): PNG keeps every pixel and
\* ignores the quality argument, JPEG is lossy at the given quality.
toDataURL(pixels, format, quality) ==
    [mime     |-> "image/" \o format,
     data     |-> pixels,
     lossless |-> (format = "png"),
     quality  |-> IF format = "png" THEN 100 ELSE quality]

NoResult == [returned |-> FALSE, url |-> toDataURL(Transparent, "png", 100),
             notified |-> FALSE, downloaded |-> FALSE]

\* Calls of exportImage as <<format, quality in percent, download, whether
\* the onImageReady prop is set>>: the export button and Ctrl+S (defaults
\* 0.8 and true), handleAIGuess of GamePage ('png', 1.0, false), and two
\* JPEG calls through the ref of a parent that passes onImageReady.
ExportCalls ==
    { <<"png", 80, TRUE, FALSE>>, <<"png", 100, FALSE, FALSE>>,
      <<"jpeg", 80, TRUE, TRUE>>, <<"jpeg", 100, FALSE, TRUE>> }


\* ------------------------------------------------------------------------
\* Starting states
\* ------------------------------------------------------------------------

\* The state saveToHistory leaves after the mount commit and n - 1 plain
\* strokes (StartDrawing, Draw, Tick, StopDrawing), n <= MaxHistory: commit k
\* is made at clock k, holds the pixels Ink(k - 1) and nothing is evicted.
Committed(n) ==
    [history |-> [k \in 1..n |-> Snapshot(Ink(k - 1), k, k)],
     historyIndex |-> n - 1]

\* No snapshot: what current() is on the empty history
NoSnapshot == Snapshot(Transparent, 0, 0)

\* What prev keeps of the state a handler started from: the length of the
\* history, the cursor, the snapshot at the cursor, the pixels and isDrawing,
\* and whether that state was itself left by an undo that moved the cursor
\* ("undo"), by clearCanvas ("clearCanvas"), by a stopDrawing that ended a
\* stroke ("stopDrawing") or by anything else ("other").
Canvas(h, i, pixels, drawing, after) ==
    [length |-> Len(h), historyIndex |-> i,
     current |-> IF i >= 0 /\ i < Len(h) THEN At(h, i) ELSE NoSnapshot,
     surface |-> pixels, isDrawing |-> drawing, after |-> after]

\* The component as constructed (start = 0), or after it was mounted and
\* MaxHistory - 2 strokes were drawn, one commit below the capacity.
StartCommits == {0, MaxHistory - 1}

InitCanvas ==
    /\ start \in StartCommits
    /\ history = Committed(start).history
    /\ historyIndex = Committed(start).historyIndex
    /\ isDrawing = FALSE
    /\ tool = "brush"
    /\ surface = IF start = 0 THEN Transparent ELSE Ink(start - 1)
    /\ now = start
    /\ commits = start
    /\ draws = IF start = 0 THEN 0 ELSE start - 1
    /\ consecutive = start
    /\ lastOp = IF start = 0 THEN "construct" ELSE "stopDrawing"
    /\ prev = IF start = 0
              THEN Canvas(<<>>, -1, Transparent, FALSE, "other")
              ELSE Canvas(Committed(start - 1).history,
                          Committed(start - 1).historyIndex,
                          Ink(start - 1), TRUE, "other")
    /\ result = NoResult

\* ------------------------------------------------------------------------
\* Handlers of DrawingCanvas
\* ------------------------------------------------------------------------

mounted == lastOp # "construct"

Ran(op) ==
    /\ lastOp' = op
    /\ prev' = Canvas(history, historyIndex, surface, isDrawing,
                      IF lastOp = "clearCanvas" THEN "clearCanvas"
                      ELSE IF lastOp = "undo"
                              /\ historyIndex = prev.historyIndex - 1
                           THEN "undo"
                      ELSE IF lastOp = "stopDrawing" /\ prev.isDrawing
                           THEN "stopDrawing"
                           ELSE "other")

\* saveToHistory() called with the canvas showing `pixels`
Commit(pixels) ==
    LET saved == saveToHistory(history, historyIndex, pixels, now, commits + 1)
    IN  /\ commits < start + MaxCommits
        /\ history' = saved.history
        /\ historyIndex' = saved.historyIndex
        /\ commits' = commits + 1
        /\ consecutive' = consecutive + 1

\* useEffect(() => { ... fillRect ...; saveToHistory() }, [])
Mount ==
    /\ ~mounted
    /\ surface' = White
    /\ Commit(White)
    /\ Ran("mount")
    /\ result' = NoResult
    /\ UNCHANGED <<isDrawing, now, draws, start>>
    /\ UNCHANGED offCanvas

\* undo with >= in place of >: at the oldest entry the cursor still moves,
\* and reading history[-1].imageData throws before putImageData
undo_Inclusive ==
    IF historyIndex >= 0
    THEN /\ historyIndex' = historyIndex - 1
         /\ surface' = IF historyIndex > 0
                       THEN At(history, historyIndex - 1).imageData
                       ELSE surface
    ELSE UNCHANGED <<historyIndex, surface>>

undo ==
    IF historyIndex > 0
    THEN /\ historyIndex' = historyIndex - 1
         /\ surface' = At(history, historyIndex - 1).imageData
    ELSE UNCHANGED <<historyIndex, surface>>

\* redo that repaints the entry at the old cursor
redo_StaleImage ==
    IF historyIndex < Len(history) - 1
    THEN /\ historyIndex' = historyIndex + 1
         /\ surface' = At(history, historyIndex).imageData
    ELSE UNCHANGED <<historyIndex, surface>>

\* redo with <= in place of <: at the newest entry the cursor still moves,
\* and reading history[length].imageData throws before putImageData
redo_Inclusive ==
    IF historyIndex <= Len(history) - 1
    THEN /\ historyIndex' = historyIndex + 1
         /\ surface' = IF historyIndex < Len(history) - 1
                       THEN At(history, historyIndex + 1).imageData
                       ELSE surface
    ELSE UNCHANGED <<historyIndex, surface>>

redo ==
    IF historyIndex < Len(history) - 1
    THEN /\ historyIndex' = historyIndex + 1
         /\ surface' = At(history, historyIndex + 1).imageData
    ELSE UNCHANGED <<historyIndex, surface>>

\* undo that drops the entries behind the new cursor
Undo_Truncate ==
    /\ mounted
    /\ historyIndex > 0 => Len(history) - 1 - historyIndex < MaxBack
    /\ undo
    /\ history' = IF historyIndex > 0
                  THEN SubSeq(history, 1, historyIndex) ELSE history
    /\ consecutive' = 0
    /\ Ran("undo")
    /\ result' = NoResult
    /\ UNCHANGED <<isDrawing, now, commits, draws, start>>
    /\ UNCHANGED offCanvas

\* ref.undo(), the undo button, Ctrl+Z.  The second conjunct bounds the
\* exploration, see MaxBack.
Undo ==
    /\ mounted
    /\ historyIndex > 0 => Len(history) - 1 - historyIndex < MaxBack
    /\ undo
    /\ consecutive' = 0
    /\ Ran("undo")
    /\ result' = NoResult
    /\ UNCHANGED <<history, isDrawing, now, commits, draws, start>>
    /\ UNCHANGED offCanvas

\* ref.redo(), the redo button, Ctrl+Y, Ctrl+Shift+Z
Redo ==
    /\ mounted
    /\ redo
    /\ consecutive' = 0
    /\ Ran("redo")
    /\ result' = NoResult
    /\ UNCHANGED <<history, isDrawing, now, commits, draws, start>>
    /\ UNCHANGED offCanvas

\* mousedown / touchstart
StartDrawing ==
    /\ mounted
    /\ isDrawing' = TRUE
    /\ Ran("startDrawing")
    /\ result' = NoResult
    /\ UNCHANGED <<history, historyIndex, surface, now, commits, draws,
                   consecutive, start>>
    /\ UNCHANGED offCanvas

\* mousemove / touchmove.  With shapes = 'none' draw() always takes the
\* free-drawing branch, whatever the tool: lineTo and stroke change the
\* pixels ('destination-out' for the eraser, 'source-over' for the others).
Draw ==
    /\ mounted
    /\ IF ~isDrawing
       THEN UNCHANGED <<surface, draws>>
       ELSE /\ draws < (IF start = 0 THEN 0 ELSE start - 1) + MaxDraws
            /\ draws' = draws + 1
            /\ surface' = Ink(draws + 1)
    /\ Ran("draw")
    /\ result' = NoResult
    /\ UNCHANGED <<history, historyIndex, isDrawing, now, commits,
                   consecutive, start>>
    /\ UNCHANGED offCanvas

\* stopDrawing without the isDrawing test
StopDrawing_NoTest ==
    /\ mounted
    /\ isDrawing' = FALSE
    /\ Commit(surface)
    /\ Ran("stopDrawing")
    /\ result' = NoResult
    /\ UNCHANGED <<surface, now, draws, start>>
    /\ UNCHANGED offCanvas

\* mouseup / mouseleave / touchend
StopDrawing ==
    /\ mounted
    /\ IF isDrawing
       THEN /\ isDrawing' = FALSE
            /\ IF shapes = "none"
               THEN Commit(surface)
               ELSE UNCHANGED <<history, historyIndex, commits, consecutive>>
       ELSE UNCHANGED <<isDrawing, history, historyIndex, commits,
                        consecutive>>
    /\ Ran("stopDrawing")
    /\ result' = NoResult
    /\ UNCHANGED <<surface, now, draws, start>>
    /\ UNCHANGED offCanvas

\* clearCanvas that starts the history over with the blank snapshot
ClearCanvas_Reset ==
    /\ mounted
    /\ surface' = White
    /\ commits < start + MaxCommits
    /\ history' = <<Snapshot(White, now, commits + 1)>>
    /\ historyIndex' = 0
    /\ commits' = commits + 1
    /\ consecutive' = consecutive + 1
    /\ Ran("clearCanvas")
    /\ result' = NoResult
    /\ UNCHANGED <<isDrawing, now, draws, start>>
    /\ UNCHANGED offCanvas

\* ref.clearCanvas(), the clear button
ClearCanvas ==
    /\ mounted
    /\ surface' = White
    /\ Commit(White)
    /\ Ran("clearCanvas")
    /\ result' = NoResult
    /\ UNCHANGED <<isDrawing, now, draws, start>>
    /\ UNCHANGED offCanvas

\* exportImage that wipes the canvas once the image is encoded
ExportImage_Wipe ==
    /\ mounted
    /\ surface' = White
    /\ \E call \in ExportCalls :
          result' = [returned |-> TRUE,
                     url |-> toDataURL(surface, call[1], call[2]),
                     notified |-> call[4], downloaded |-> call[3]]
    /\ Ran("exportImage")
    /\ UNCHANGED <<history, historyIndex, isDrawing, now, commits,
                   draws, consecutive, start>>
    /\ UNCHANGED offCanvas

\* ref.exportImage(format, quality, download), the export button, Ctrl+S;
\* notify tells whether the onImageReady prop is set.
ExportImage ==
    /\ mounted
    /\ \E call \in ExportCalls :
          result' = [returned |-> TRUE,
                     url |-> toDataURL(surface, call[1], call[2]),
                     notified |-> call[4], downloaded |-> call[3]]
    /\ Ran("exportImage")
    /\ UNCHANGED <<history, historyIndex, isDrawing, surface, now, commits,
                   draws, consecutive, start>>
    /\ UNCHANGED offCanvas

\* keydown Escape: setCurrentShape(null); setIsDrawing(false)
Escape ==
    /\ mounted
    /\ isDrawing' = FALSE
    /\ Ran("escape")
    /\ result' = NoResult
    /\ UNCHANGED <<history, historyIndex, surface, now, commits, draws,
                   consecutive, start>>
    /\ UNCHANGED offCanvas

\* the five buttons of the tool bar
Tools == {"brush", "eraser", "line", "circle", "rectangle"}

\* onClick={() => setTool(key)}
SetTool(key) ==
    /\ mounted
    /\ tool' = key
    /\ UNCHANGED <<history, historyIndex, isDrawing, surface, now, commits,
                   draws, consecutive, start, lastOp, prev, result>>
    /\ UNCHANGED <<clientVars, serverVars, pageVars>>

\* a millisecond passes
Tick ==
    /\ now < start + MaxTicks
    /\ now' = now + 1
    /\ UNCHANGED <<history, historyIndex, isDrawing, surface, commits, draws,
                   consecutive, start, lastOp, prev, result>>
    /\ UNCHANGED offCanvas

NextCanvas ==
    \/ Mount
    \/ Undo
    \/ Redo
    \/ StartDrawing
    \/ Draw
    \/ StopDrawing
    \/ ClearCanvas
    \/ ExportImage
    \/ Escape

\* ------------------------------------------------------------------------
\* The browser-side AIService (aiService.ts)
\* ------------------------------------------------------------------------

\* guessImage calls explored
MaxRequests == 2
Requests == 1..MaxRequests

\* mockResponses of getMockResponse, confidence in percent
MockResponses ==
    << [guess |-> "cat",    confidence |-> 92, suggestions |-> <<"cat", "pet", "kitten">>],
       [guess |-> "sunset", confidence |-> 88, suggestions |-> <<"sunset", "scenery", "dusk">>],
       [guess |-> "car",    confidence |-> 85, suggestions |-> <<"car", "vehicle", "red">>],
       [guess |-> "tree",   confidence |-> 90, suggestions |-> <<"tree", "plant", "nature">>],
       [guess |-> "sea",    confidence |-> 87, suggestions |-> <<"sea", "water", "blue">>],
       [guess |-> "sun",    confidence |-> 94, suggestions |-> <<"sun", "sunshine", "yellow">>],
       [guess |-> "hill",   confidence |-> 89, suggestions |-> <<"hill", "peak", "nature">>],
       [guess |-> "flower", confidence |-> 91, suggestions |-> <<"flower", "plant", "pretty">>],
       [guess |-> "dog",    confidence |-> 93, suggestions |-> <<"dog", "pet", "animal">>],
       [guess |-> "house",  confidence |-> 86, suggestions |-> <<"building", "home", "family">>] >>

\* data.data of a body of POST /api/ai-guess.  suggestions is optional in
\* AIServiceResponse (has = FALSE: the field is missing); defined = FALSE is
\* a body without data, on which reading response.guess throws.
RemoteData ==
    { [defined |-> TRUE, guess |-> "remote", confidence |-> 80,
       suggestions |-> [has |-> TRUE, list |-> <<"a", "b", "c", "d">>]],
      [defined |-> TRUE, guess |-> "remote", confidence |-> 70,
       suggestions |-> [has |-> FALSE, list |-> <<>>]],
      [defined |-> FALSE, guess |-> "", confidence |-> 0,
       suggestions |-> [has |-> FALSE, list |-> <<>>]] }

NoResponse ==
    [guess |-> "", confidence |-> 0, suggestions |-> <<>>, success |-> FALSE,
     source |-> "none", processingTime |-> "none"]

\* One guessImage call.
\*   pc      "idle" not called yet; "fetching" awaiting fetch in callAIApi;
\*           "parsing" awaiting response.json(); "mockDelay" awaiting the
\*           setTimeout of getMockResponse; "done" the promise has resolved
\*   online  isOnlineMode as guessImage read it
\*   fetches calls of fetch(`${apiUrl}/api/ai-guess`) made for this call
\*   timer   the abort timer of callAIApi: "none", "armed", "cleared", "fired"
\*   response what the promise resolved with; its processingTime is
\*           "elapsed" for Date.now() - startTime (l.92) and "random" for
\*           1500 + Math.random() * 1000 (l.168), a draw of its own that
\*           the delay of l.147 does not enter
IdleRequest ==
    [pc |-> "idle", online |-> FALSE, fetches |-> 0, timer |-> "none",
     response |-> NoResponse]

\* class field isOnlineMode = false, then aiService.setOnlineMode(true) when
\* the module is loaded
InitClient ==
    /\ isOnlineMode = TRUE
    /\ req = [r \in Requests |-> IdleRequest]

\* setOnlineMode(online)
SetOnlineMode(online) ==
    /\ isOnlineMode' = online
    /\ UNCHANGED req
    /\ UNCHANGED offClient

\* getMockResponse up to its await: the request now waits for the timer
toMock(r) == [req[r] EXCEPT !.pc = "mockDelay"]

\* guessImage without the isOnlineMode test
GuessImage_NoModeTest(r) ==
    /\ req[r].pc = "idle"
    /\ req' = [req EXCEPT ![r] =
                  [@ EXCEPT !.pc = "fetching", !.online = isOnlineMode,
                            !.fetches = @ + 1, !.timer = "armed"]]
    /\ UNCHANGED isOnlineMode
    /\ UNCHANGED offClient

\* guessImage(imageData, mimeType) up to its first await
GuessImage(r) ==
    /\ req[r].pc = "idle"
    /\ IF ~isOnlineMode
       THEN req' = [req EXCEPT ![r] = [toMock(r) EXCEPT !.online = FALSE]]
       ELSE req' = [req EXCEPT ![r] =
                       [@ EXCEPT !.pc = "fetching", !.online = TRUE,
                                 !.fetches = @ + 1, !.timer = "armed"]]
    /\ UNCHANGED isOnlineMode
    /\ UNCHANGED offClient

\* fetch resolves with a response: clearTimeout, then the status check
FetchResolves(r, ok) ==
    /\ req[r].pc = "fetching"
    /\ req' = [req EXCEPT ![r] =
                  IF ok THEN [@ EXCEPT !.pc = "parsing", !.timer = "cleared"]
                  ELSE [toMock(r) EXCEPT !.timer = "cleared"]]
    /\ UNCHANGED isOnlineMode
    /\ UNCHANGED offClient

\* fetch rejects (network error): callAIApi throws before clearTimeout and
\* the catch of guessImage falls back to the mock
FetchRejects(r) ==
    /\ req[r].pc = "fetching"
    /\ req' = [req EXCEPT ![r] = toMock(r)]
    /\ UNCHANGED isOnlineMode
    /\ UNCHANGED offClient

\* setTimeout(() => controller.abort(), timeout) fires: a pending fetch
\* rejects with AbortError
AbortTimerFires(r) ==
    /\ req[r].timer = "armed"
    /\ req' = [req EXCEPT ![r] =
                  IF req[r].pc = "fetching"
                  THEN [toMock(r) EXCEPT !.timer = "fired"]
                  ELSE [@ EXCEPT !.timer = "fired"]]
    /\ UNCHANGED isOnlineMode
    /\ UNCHANGED offClient

\* a guessImage that reads isOnlineMode again when the body has arrived and
\* reports a failure when the service went offline meanwhile
JsonResolves_Recheck(r, success, data) ==
    /\ req[r].pc = "parsing"
    /\ req' = [req EXCEPT ![r] =
                  IF ~success \/ ~data.defined THEN toMock(r)
                  ELSE [@ EXCEPT !.pc = "done",
                          !.response =
                             [guess |-> data.guess,
                              confidence |-> data.confidence,
                              suggestions |->
                                 IF data.suggestions.has
                                 THEN data.suggestions.list ELSE <<>>,
                              success |-> isOnlineMode,
                              source |-> "remote",
                              processingTime |-> "elapsed"]]]
    /\ UNCHANGED isOnlineMode
    /\ UNCHANGED offClient

\* response.json() resolves with the body {success, data}: callAIApi throws
\* unless success, guessImage throws on a missing data; both fall back to
\* the mock
JsonResolves(r, success, data) ==
    /\ req[r].pc = "parsing"
    /\ req' = [req EXCEPT ![r] =
                  IF ~success \/ ~data.defined THEN toMock(r)
                  ELSE [@ EXCEPT !.pc = "done",
                          !.response =
                             [guess |-> data.guess,
                              confidence |-> data.confidence,
                              suggestions |->
                                 IF data.suggestions.has
                                 THEN data.suggestions.list ELSE <<>>,
                              success |-> TRUE,
                              source |-> "remote",
                              processingTime |-> "elapsed"]]]
    /\ UNCHANGED isOnlineMode
    /\ UNCHANGED offClient

\* response.json() rejects (the body is not JSON)
JsonRejects(r) ==
    /\ req[r].pc = "parsing"
    /\ req' = [req EXCEPT ![r] = toMock(r)]
    /\ UNCHANGED isOnlineMode
    /\ UNCHANGED offClient

\* Math.floor(Math.random() * mockResponses.length) + 1
Picks == 1..Len(MockResponses)
\* the first and the last entry: the picks followed where the page, not the
\* guess, is looked at
PagePicks == {1, Len(MockResponses)}

\* the setTimeout of getMockResponse fires; pick is the entry chosen
MockTimerFires(r, pick) ==
    /\ req[r].pc = "mockDelay"
    /\ req' = [req EXCEPT ![r] =
                  [@ EXCEPT !.pc = "done",
                            !.response =
                               [guess |-> MockResponses[pick].guess,
                                confidence |-> MockResponses[pick].confidence,
                                suggestions |-> MockResponses[pick].suggestions,
                                success |-> TRUE,
                                source |-> "mock",
                                processingTime |-> "random"]]]
    /\ UNCHANGED isOnlineMode
    /\ UNCHANGED offClient

NextClient ==
    \/ \E online \in BOOLEAN : SetOnlineMode(online)
    \/ \E r \in Requests : GuessImage(r)
    \/ \E r \in Requests, ok \in BOOLEAN : FetchResolves(r, ok)
    \/ \E r \in Requests : FetchRejects(r)
    \/ \E r \in Requests : AbortTimerFires(r)
    \/ \E r \in Requests, success \in BOOLEAN, data \in RemoteData :
          JsonResolves(r, success, data)
    \/ \E r \in Requests : JsonRejects(r)
    \/ \E r \in Requests, pick \in Picks : MockTimerFires(r, pick)

\* ------------------------------------------------------------------------
\* The server-side AIService (errorHandler.ts)
\* ------------------------------------------------------------------------

\* server-side guessImage calls explored
MaxServerRequests == 1
ServerRequests == 1..MaxServerRequests

\* A string is the sequence of its pieces: a piece is one keyword the code
\* looks for, one other word, or one blank " ".
includes(s, k) == \E i \in 1..Len(s) : s[i] = k

RECURSIVE trimStart(_)
trimStart(s) ==
    IF s # <<>> /\ Head(s) = " " THEN trimStart(Tail(s)) ELSE s

RECURSIVE trimEnd(_)
trimEnd(s) ==
    IF s # <<>> /\ s[Len(s)] = " " THEN trimEnd(SubSeq(s, 1, Len(s) - 1)) ELSE s

trim(s) == trimEnd(trimStart(s))

\* Array.prototype.slice(from, to) for 0 <= from <= to
slice(s, from, to) ==
    SubSeq(s, from + 1, IF to < Len(s) THEN to ELSE Len(s))

\* Math.random() in thousandths; Math.floor(Math.random() * n)
Randoms == {0, 500, 999}
randomIndex(rnd, n) == (rnd * n) \div 1000

\* The image string a caller passes: its length and whether it starts with
\* 'data:image/'.  The lengths sit on both sides of the two thresholds of
\* getIntelligentMockResponse.
Images ==
    { [isString |-> TRUE, length |-> 9999,   prefix |-> FALSE],
      [isString |-> TRUE, length |-> 10000,  prefix |-> TRUE],
      [isString |-> TRUE, length |-> 100000, prefix |-> FALSE],
      [isString |-> TRUE, length |-> 100001, prefix |-> TRUE] }

\* The route hands guessImage any truthy req.body.image: validateRequest
\* tests only that the field is there.  On a value that is no string
\* replace() and startsWith() throw a TypeError.
NotAString == [isString |-> FALSE, length |-> 0, prefix |-> FALSE]

NoImage == [isString |-> TRUE, length |-> 0, prefix |-> FALSE]

\* guess pools of getIntelligentMockResponse
largeImageGuesses ==
    << <<"complex", "painting">>, <<"scenery", "photo">>,
       <<"detailed", "pattern">>, <<"abstract", "art">> >>

smallImageGuesses ==
    << <<"simple", "icon">>, <<"small", "pattern">>, <<"symbol">>, <<"mark">> >>

defaultGuesses ==
    << <<"a", "cat">>, <<"a", "flower">>, <<"a", "hill">>, <<"a", "car">>,
       <<"a", "bird">>, <<"a", "tree">>, <<"a", "moon">>, <<"a", "house">>,
       <<"an", "apple">>, <<"a", "dog">>, <<"a", "person">>, <<"an", "animal">> >>

smartSuggestions ==
    <<"object recognition", "pattern analysis", "shape features",
      "colour composition">>

\* message of the error the timeout timer rejects with ('AI shibie chaoshi',
\* recognition timed out); guessImage looks for 'chaoshi' in it
TimeoutMessage == <<"AI", "shibie", "chaoshi">>

\* messages callOpenAI throws
NotInitializedMessage == <<"OpenAI", "client", "not", "initialized">>
AuthMessage == <<"API", "renzheng shibai", "check", "key">>
RateLimitMessage == <<"API", "pinlv xianzhi", "retry", "later">>
QuotaMessage == <<"API", "quota", "insufficient">>
UnknownMessage == <<"weizhi cuowu">>

\* what openai.chat.completions.create can reject with: an Error with its
\* message, or a value that is no Error
RemoteErrors ==
    { [isError |-> TRUE,  message |-> <<"Connection", "error">>],
      [isError |-> TRUE,  message |-> <<"401", "Incorrect", "API", "key">>],
      [isError |-> TRUE,  message |-> <<"429", "Rate", "limit", "reached">>],
      [isError |-> TRUE,  message |-> <<"429", "exceeded", "quota">>],
      [isError |-> TRUE,  message |-> <<"insufficient", "quota">>],
      [isError |-> TRUE,  message |-> <<"Request", "timed", "out">>],
      [isError |-> FALSE, message |-> <<>>] }

\* what openai.chat.completions.create can resolve with: choices may be
\* missing, and the content of choices[0] may be missing or empty
RemoteResponses ==
    { [choices |-> FALSE, content |-> <<>>],
      [choices |-> TRUE,  content |-> <<>>],
      [choices |-> TRUE,  content |-> <<" ", " ">>],
      [choices |-> TRUE,  content |-> <<" ", "a", "cat", " ">>],
      [choices |-> TRUE,  content |-> <<"cat", "flower", "car", "person">>],
      [choices |-> TRUE,  content |-> <<" ", "a", "dog", "b3", "b4", "b5">>],
      [choices |-> TRUE,
       content |-> <<"a", "tree", "t3", "t4", "t5", "t6", "t7", "t8", "t9",
                     "t10", "t11", "t12", "t13", "t14", "t15", "t16", "t17",
                     "t18", "t19", "t20", " ">>],
      [choices |-> TRUE,
       content |-> <<"a", "house", "w3", "w4", "w5", "w6", "w7", "w8", "w9",
                     "w10", "w11", "w12", "w13", "w14", "w15", "w16", "w17",
                     "w18", "w19", "w20", "w21">>] }

\* the guess callOpenAI uses when the content is missing or empty
UnrecognizedGuess == <<"cannot", "recognize", "the", "picture", "c5", "c6", "c7", "c8">>

\* errorHandler.ts:599  suggestions.slice(0, 4)
MaxSuggestions == 4

\* generateSmartSuggestions without its slice(0, 4)
generateSmartSuggestions_NoSlice(guess) ==
    LET animals == IF includes(guess, "cat") \/ includes(guess, "dog")
                      \/ includes(guess, "bird")
                   THEN <<"animal", "pet", "mammal">> ELSE <<>>
        nature  == IF includes(guess, "flower") \/ includes(guess, "tree")
                      \/ includes(guess, "hill")
                   THEN <<"nature", "plant", "scenery">> ELSE <<>>
        things  == IF includes(guess, "car") \/ includes(guess, "house")
                   THEN <<"thing", "vehicle", "building">> ELSE <<>>
        people  == IF includes(guess, "person")
                   THEN <<"person", "face", "portrait">> ELSE <<>>
        found   == animals \o nature \o things \o people
    IN  IF Len(found) = 0 THEN <<"object", "pattern", "shape">> ELSE found

\* generateSmartSuggestions(guess)
generateSmartSuggestions(guess) ==
    LET animals == IF includes(guess, "cat") \/ includes(guess, "dog")
                      \/ includes(guess, "bird")
                   THEN <<"animal", "pet", "mammal">> ELSE <<>>
        nature  == IF includes(guess, "flower") \/ includes(guess, "tree")
                      \/ includes(guess, "hill")
                   THEN <<"nature", "plant", "scenery">> ELSE <<>>
        things  == IF includes(guess, "car") \/ includes(guess, "house")
                   THEN <<"thing", "vehicle", "building">> ELSE <<>>
        people  == IF includes(guess, "person")
                   THEN <<"person", "face", "portrait">> ELSE <<>>
        found   == animals \o nature \o things \o people
        suggestions == IF Len(found) = 0
                       THEN <<"object", "pattern", "shape">> ELSE found
    IN  slice(suggestions, 0, MaxSuggestions)

\* getIntelligentMockResponse with the two ends of the middle range given
\* to the outer pools
getIntelligentMockResponse_Inclusive(imageData, rnd) ==
    LET guessPool == IF imageData.length >= 100000 THEN largeImageGuesses
                     ELSE IF imageData.length <= 10000 THEN smallImageGuesses
                     ELSE defaultGuesses
    IN  [guess |-> guessPool[randomIndex(rnd, Len(guessPool)) + 1],
         confidence |-> IF imageData.prefix THEN 70 ELSE 60,
         processingTime |-> "random",
         success |-> TRUE,
         suggestions |-> smartSuggestions]

\* getIntelligentMockResponse(imageData, reason): reason is only written to
\* the log.  rnd is the Math.random() of the pick; processingTime is
\* 500 + Math.random() * 1000.
getIntelligentMockResponse(imageData, rnd) ==
    LET guessPool == IF imageData.length > 100000 THEN largeImageGuesses
                     ELSE IF imageData.length < 10000 THEN smallImageGuesses
                     ELSE defaultGuesses
    IN  [guess |-> guessPool[randomIndex(rnd, Len(guessPool)) + 1],
         confidence |-> IF imageData.prefix THEN 70 ELSE 60,
         processingTime |-> "random",
         success |-> TRUE,
         suggestions |-> smartSuggestions]

\* callOpenAI choosing the confidence from the answer before it replaces
\* an empty one
recognized_BandFirst(response) ==
    LET content == trim(response.content)
        guess == IF content = <<>> THEN UnrecognizedGuess ELSE content
    IN  [guess |-> guess,
         confidence |-> IF Len(content) > 20 THEN 90
                        ELSE IF Len(content) < 5 THEN 70 ELSE 80,
         suggestions |-> generateSmartSuggestions(guess)]

\* the value callOpenAI resolves with for a response that has choices
recognized(response) ==
    LET content == trim(response.content)
        guess == IF content = <<>> THEN UnrecognizedGuess ELSE content
    IN  [guess |-> guess,
         confidence |-> IF Len(guess) > 20 THEN 90
                        ELSE IF Len(guess) < 5 THEN 70 ELSE 80,
         suggestions |-> generateSmartSuggestions(guess)]

\* reading choices[0] of a response without choices, or calling a string
\* method of a value that is no string
TypeErrorValue ==
    [isError |-> TRUE, message |-> <<"Cannot", "read", "properties", "of", "undefined">>]

\* the error the catch of callOpenAI throws for a caught error
rethrown(error) ==
    IF error.isError /\ includes(error.message, "401")
    THEN [isError |-> TRUE, message |-> AuthMessage]
    ELSE IF error.isError /\ includes(error.message, "429")
    THEN [isError |-> TRUE, message |-> RateLimitMessage]
    ELSE IF error.isError /\ includes(error.message, "quota")
    THEN [isError |-> TRUE, message |-> QuotaMessage]
    ELSE error

NoReason == [given |-> FALSE, message |-> <<>>]

NoServerResult ==
    [guess |-> <<>>, confidence |-> 0, processingTime |-> "none",
     success |-> FALSE, suggestions |-> <<>>]

\* One guessImage call of the server.
\*   pc      "idle" not called yet; "racing" awaiting Promise.race;
\*           "done" the promise of guessImage has resolved; "failed" it
\*           has rejected
\*   image   the argument
\*   api     the promise of callOpenAI: "none" (not called), "pending",
\*           "fulfilled", "rejected"
\*   timer   the setTimeout behind timeoutPromise: "none", "armed", "fired"
\*   result  what guessImage resolved with
\*   returns how many times guessImage produced a result
\*   reason  the reason the catch handed to getIntelligentMockResponse
\*   unhandled  timeoutPromise rejected with no handler attached to it
IdleServerRequest ==
    [pc |-> "idle", image |-> NoImage, api |-> "none", timer |-> "none",
     result |-> NoServerResult, returns |-> 0, reason |-> NoReason,
     unhandled |-> FALSE]

\* new AIService(): initialize() reads the environment, in which the key
\* is set or not
InitServer(keys) ==
    /\ apiKey \in keys
    /\ openai = apiKey
    /\ isInitialized = apiKey
    /\ sreq = [r \in ServerRequests |-> IdleServerRequest]

\* setApiKey(apiKey): the environment variable, then initialize()
SetApiKey(key) ==
    /\ apiKey' = key
    /\ openai' = IF key THEN TRUE ELSE openai
    /\ isInitialized' = key
    /\ UNCHANGED <<sreq, shealth>>
    /\ UNCHANGED offServer

\* the try block of guessImage returns the remote value
returned(q, value) ==
    [q EXCEPT !.pc = "done", !.returns = @ + 1,
              !.result = [guess |-> value.guess,
                          confidence |-> value.confidence,
                          suggestions |-> value.suggestions,
                          processingTime |-> "elapsed",
                          success |-> TRUE]]

\* the catch block of guessImage with every error rethrown
caught_Rethrow(q, error, rnd) ==
    [q EXCEPT !.pc = "failed",
              !.reason = [given |-> TRUE,
                          message |-> IF error.isError THEN error.message
                                      ELSE UnknownMessage]]

\* a catch block that trusts its fallback less after a timeout
caught_ByCategory(q, error, rnd) ==
    LET message == IF error.isError THEN error.message ELSE UnknownMessage
        intelligentResponse == getIntelligentMockResponse(q.image, rnd)
    IN  IF ~q.image.isString
        THEN [q EXCEPT !.pc = "failed",
                       !.reason = [given |-> TRUE, message |-> message]]
        ELSE [q EXCEPT !.pc = "done", !.returns = @ + 1,
                       !.reason = [given |-> TRUE, message |-> message],
                       !.result = [intelligentResponse EXCEPT
                                      !.processingTime = "elapsed",
                                      !.confidence =
                                         IF includes(message, "chaoshi")
                                         THEN 50 ELSE @,
                                      !.success = TRUE]]

\* the catch block of guessImage: getIntelligentMockResponse throws on an
\* image that is no string, and then guessImage rejects
caught(q, error, rnd) ==
    LET message == IF error.isError THEN error.message ELSE UnknownMessage
        intelligentResponse == getIntelligentMockResponse(q.image, rnd)
    IN  IF ~q.image.isString
        THEN [q EXCEPT !.pc = "failed",
                       !.reason = [given |-> TRUE, message |-> message]]
        ELSE [q EXCEPT !.pc = "done", !.returns = @ + 1,
                       !.reason = [given |-> TRUE, message |-> message],
                       !.result = [intelligentResponse EXCEPT
                                      !.processingTime = "elapsed",
                                      !.success = TRUE]]

\* guessImage without the test of the key: callOpenAI is always called
ServerGuessImage_NoKeyTest(r, image, rnd) ==
    /\ sreq[r].pc = "idle"
    /\ LET armed == [sreq[r] EXCEPT !.image = image, !.timer = "armed"]
       IN  sreq' = [sreq EXCEPT ![r] =
                      IF ~openai
                      THEN caught([armed EXCEPT !.api = "rejected"],
                                  [isError |-> TRUE,
                                   message |-> NotInitializedMessage], rnd)
                      ELSE IF ~image.isString
                      THEN caught([armed EXCEPT !.api = "rejected"],
                                  rethrown(TypeErrorValue), rnd)
                      ELSE [armed EXCEPT !.pc = "racing", !.api = "pending"]]
    /\ UNCHANGED <<apiKey, openai, isInitialized, shealth>>
    /\ UNCHANGED offServer

\* guessImage(imageBase64) up to its first await, or to its return when
\* there is none
called(q, image, rnd) ==
    LET armed == [q EXCEPT !.image = image, !.timer = "armed"]
    IN  IF ~apiKey
        THEN IF image.isString
             THEN [armed EXCEPT
                     !.pc = "done", !.returns = @ + 1,
                     !.result = getIntelligentMockResponse(image, rnd)]
             ELSE caught(armed, TypeErrorValue, rnd)
        ELSE IF ~openai
        THEN caught([armed EXCEPT !.api = "rejected"],
                    [isError |-> TRUE,
                     message |-> NotInitializedMessage], rnd)
        ELSE IF ~image.isString
        THEN caught([armed EXCEPT !.api = "rejected"],
                    rethrown(TypeErrorValue), rnd)
        ELSE [armed EXCEPT !.pc = "racing", !.api = "pending"]

\* guessImage(imageBase64) is called
ServerGuessImage(r, image, rnd) ==
    /\ sreq[r].pc = "idle"
    /\ sreq' = [sreq EXCEPT ![r] = called(sreq[r], image, rnd)]
    /\ UNCHANGED <<apiKey, openai, isInitialized, shealth>>
    /\ UNCHANGED offServer

\* openai.chat.completions.create resolves and its value is used whether
\* or not guessImage still awaits
OpenAIResolves_Late(r, response, rnd) ==
    /\ sreq[r].api = "pending"
    /\ LET q == [sreq[r] EXCEPT
                    !.api = IF response.choices THEN "fulfilled" ELSE "rejected"]
       IN  sreq' = [sreq EXCEPT ![r] =
                      IF response.choices
                      THEN returned(q, recognized(response))
                      ELSE caught(q, rethrown(TypeErrorValue), rnd)]
    /\ UNCHANGED <<apiKey, openai, isInitialized, shealth>>
    /\ UNCHANGED offServer

\* openai.chat.completions.create resolves: callOpenAI returns its value, or
\* throws on a response without choices; the race is decided by it only
\* while guessImage still awaits
OpenAIResolves(r, response, rnd) ==
    /\ sreq[r].api = "pending"
    /\ LET q == [sreq[r] EXCEPT
                    !.api = IF response.choices THEN "fulfilled" ELSE "rejected"]
       IN  sreq' = [sreq EXCEPT ![r] =
                      IF sreq[r].pc # "racing" THEN q
                      ELSE IF response.choices
                      THEN returned(q, recognized(response))
                      ELSE caught(q, rethrown(TypeErrorValue), rnd)]
    /\ UNCHANGED <<apiKey, openai, isInitialized, shealth>>
    /\ UNCHANGED offServer

\* openai.chat.completions.create rejects
OpenAIRejects(r, error, rnd) ==
    /\ sreq[r].api = "pending"
    /\ LET q == [sreq[r] EXCEPT !.api = "rejected"]
       IN  sreq' = [sreq EXCEPT ![r] =
                      IF sreq[r].pc # "racing" THEN q
                      ELSE caught(q, rethrown(error), rnd)]
    /\ UNCHANGED <<apiKey, openai, isInitialized, shealth>>
    /\ UNCHANGED offServer

\* the setTimeout behind timeoutPromise fires and rejects nothing
ServerTimerFires_NoReject(r, rnd) ==
    /\ sreq[r].timer = "armed"
    /\ sreq' = [sreq EXCEPT ![r] = [@ EXCEPT !.timer = "fired"]]
    /\ UNCHANGED <<apiKey, openai, isInitialized, shealth>>
    /\ UNCHANGED offServer

\* the setTimeout behind timeoutPromise fires and rejects it
ServerTimerFires(r, rnd) ==
    /\ sreq[r].timer = "armed"
    /\ LET q == [sreq[r] EXCEPT !.timer = "fired",
                                !.unhandled = (sreq[r].api = "none")]
       IN  sreq' = [sreq EXCEPT ![r] =
                      IF sreq[r].pc # "racing" THEN q
                      ELSE caught(q, [isError |-> TRUE,
                                      message |-> TimeoutMessage], rnd)]
    /\ UNCHANGED <<apiKey, openai, isInitialized, shealth>>
    /\ UNCHANGED offServer

NextServer ==
    \/ \E key \in BOOLEAN : SetApiKey(key)
    \/ \E r \in ServerRequests, image \in Images \cup {NotAString},
          rnd \in Randoms :
          ServerGuessImage(r, image, rnd)
    \/ \E r \in ServerRequests, response \in RemoteResponses, rnd \in Randoms :
          OpenAIResolves(r, response, rnd)
    \/ \E r \in ServerRequests, error \in RemoteErrors, rnd \in Randoms :
          OpenAIRejects(r, error, rnd)
    \/ \E r \in ServerRequests, rnd \in Randoms : ServerTimerFires(r, rnd)

\* checkServiceHealth calls explored
MaxListings == 1
Listings == 1..MaxListings

\* what openai.models.list() can resolve with: data may be missing
ListedModels ==
    { [data |-> FALSE, length |-> 0],
      [data |-> TRUE,  length |-> 0],
      [data |-> TRUE,  length |-> 2] }

\* One checkServiceHealth call.
\*   pc       "idle" not called yet; "listing" awaiting openai.models.list();
\*            "done" the promise has settled
\*   outcome  "pending", "resolved" or "rejected"
\*   value    what it resolved with
IdleListing == [pc |-> "idle", outcome |-> "pending", value |-> FALSE]

InitServerHealth == shealth = [h \in Listings |-> IdleListing]

\* checkServiceHealth() up to its await, or to its return
CheckServiceHealth(h) ==
    /\ shealth[h].pc = "idle"
    /\ shealth' = [shealth EXCEPT ![h] =
                     IF ~isInitialized \/ ~openai
                     THEN [pc |-> "done", outcome |-> "resolved", value |-> FALSE]
                     ELSE [@ EXCEPT !.pc = "listing"]]
    /\ UNCHANGED <<apiKey, openai, isInitialized, sreq>>
    /\ UNCHANGED offServer

\* openai.models.list() resolves; reading data.length of a response
\* without data throws inside the try
ModelsListResolves(h, response) ==
    /\ shealth[h].pc = "listing"
    /\ shealth' = [shealth EXCEPT ![h] =
                     [pc |-> "done", outcome |-> "resolved",
                      value |-> response.data /\ response.length > 0]]
    /\ UNCHANGED <<apiKey, openai, isInitialized, sreq>>
    /\ UNCHANGED offServer

\* openai.models.list() rejects
ModelsListRejects(h) ==
    /\ shealth[h].pc = "listing"
    /\ shealth' = [shealth EXCEPT ![h] =
                     [pc |-> "done", outcome |-> "resolved", value |-> FALSE]]
    /\ UNCHANGED <<apiKey, openai, isInitialized, sreq>>
    /\ UNCHANGED offServer

\* ------------------------------------------------------------------------
\* The Express side of the server (ai.routes.ts, validation middleware,
\* cache middleware)
\* ------------------------------------------------------------------------

\* The JSON bodies of a POST /api/ai-guess: without the field image, or with
\* it.  NoImage is the empty string (null, 0 and false pass the same tests
\* as it does), NotAString a truthy value that is no string.
RouteBodies ==
    { [hasImage |-> FALSE, image |-> NoImage] }
        \cup { [hasImage |-> TRUE, image |-> i] :
                  i \in Images \cup {NoImage, NotAString} }

\* !image is false
truthy(image) == IF image.isString THEN image.length > 0 ELSE TRUE

\* validateRequest(schema) with required: ['image']: no field is missing
validateRequest(body) == body.hasImage

\* The body of a response: the envelope {success, data, timestamp} or
\* {success: false, error: {code, message}}
NoEnvelope ==
    [success |-> FALSE, code |-> "none", data |-> NoServerResult,
     timestamp |-> FALSE]
errorEnvelope(code) ==
    [success |-> FALSE, code |-> code, data |-> NoServerResult,
     timestamp |-> FALSE]

\* One POST /api/ai-guess; the r-th request makes the r-th guessImage call.
\*   pc         "idle" not received yet; "awaiting" the handler awaits
\*              guessImage; "responded"
\*   body       req.body
\*   responses  how many times a response was sent
\*   status     the status of the last response, envelope its body
IdleRoute ==
    [pc |-> "idle", body |-> [hasImage |-> FALSE, image |-> NoImage],
     responses |-> 0, status |-> 0, envelope |-> NoEnvelope]

\* res.status(status).json(envelope)
respond(q, status, envelope) ==
    [q EXCEPT !.pc = "responded", !.responses = @ + 1, !.status = status,
              !.envelope = envelope]

\* validateRequest that goes on to next() after its 400: the handler finds
\* no image and answers again
PostAiGuess_NextAfterError(r, body, rnd) ==
    /\ route[r].pc = "idle"
    /\ sreq[r].pc = "idle"
    /\ LET q == [route[r] EXCEPT !.body = body]
       IN  IF ~validateRequest(body)
           THEN /\ route' = [route EXCEPT ![r] =
                               respond(respond(q, 400,
                                               errorEnvelope("VALIDATION_ERROR")),
                                       400, errorEnvelope("MISSING_IMAGE"))]
                /\ UNCHANGED sreq
           ELSE IF ~truthy(body.image)
           THEN /\ route' = [route EXCEPT ![r] =
                               respond(q, 400, errorEnvelope("MISSING_IMAGE"))]
                /\ UNCHANGED sreq
           ELSE /\ route' = [route EXCEPT ![r] = [q EXCEPT !.pc = "awaiting"]]
                /\ sreq' = [sreq EXCEPT ![r] = called(sreq[r], body.image, rnd)]
    /\ UNCHANGED <<apiKey, openai, isInitialized, shealth>>
    /\ UNCHANGED <<store, got, web, clock>>
    /\ UNCHANGED <<canvasVars, clientVars, pageVars>>

\* POST /api/ai-guess: validateRequest, then the handler up to its await of
\* aiService.guessImage(image)
PostAiGuess(r, body, rnd) ==
    /\ route[r].pc = "idle"
    /\ sreq[r].pc = "idle"
    /\ LET q == [route[r] EXCEPT !.body = body]
       IN  IF ~validateRequest(body)
           THEN /\ route' = [route EXCEPT ![r] =
                               respond(q, 400,
                                       errorEnvelope("VALIDATION_ERROR"))]
                /\ UNCHANGED sreq
           ELSE IF ~truthy(body.image)
           THEN /\ route' = [route EXCEPT ![r] =
                               respond(q, 400, errorEnvelope("MISSING_IMAGE"))]
                /\ UNCHANGED sreq
           ELSE /\ route' = [route EXCEPT ![r] = [q EXCEPT !.pc = "awaiting"]]
                /\ sreq' = [sreq EXCEPT ![r] = called(sreq[r], body.image, rnd)]
    /\ UNCHANGED <<apiKey, openai, isInitialized, shealth>>
    /\ UNCHANGED <<store, got, web, clock>>
    /\ UNCHANGED <<canvasVars, clientVars, pageVars>>

\* the handler after its await: res.json of the result, or the catch with
\* its 500 when guessImage rejected
RouteContinues(r) ==
    /\ route[r].pc = "awaiting"
    /\ sreq[r].pc \in {"done", "failed"}
    /\ route' = [route EXCEPT ![r] =
                   IF sreq[r].pc = "done"
                   THEN respond(@, 200,
                                [success |-> TRUE, code |-> "none",
                                 data |-> sreq[r].result, timestamp |-> TRUE])
                   ELSE respond(@, 500, errorEnvelope("AI_SERVICE_ERROR"))]
    /\ UNCHANGED <<apiKey, openai, isInitialized, sreq, shealth>>
    /\ UNCHANGED <<store, got, web, clock>>
    /\ UNCHANGED <<canvasVars, clientVars, pageVars>>

\* ---- SimpleCache and cacheMiddleware ------------------------------------

\* ticks of the server clock explored
MaxClock == 3
\* requests through cacheMiddleware explored
MaxWeb == 3

Methods == {"GET", "POST"}
Urls == {"/api/health", "/api/health/detailed"}
\* what a handler behind the middleware answers with: 200, the 503 of the
\* detailed health check, the 404 of the catch-all
Statuses == {200, 404, 503}

\* `${req.method}-${req.originalUrl}`
cacheKey(method, url) == <<method, "-", url>>
Keys == {cacheKey("GET", url) : url \in Urls}

\* JavaScript values kept in the cache: null, a falsy value that is not
\* null (0, false, ''), and the object the n-th run of a handler sends
Null == [truthy |-> FALSE, id |-> 0]
Falsy == [truthy |-> FALSE, id |-> 1]
Body(n) == [truthy |-> TRUE, id |-> n + 1]
\* the values cache.set is called with
CachedValues == {Falsy, Body(0), Body(1)}

\* time to live given to set(), in ticks
Ttls == {0, 1, 2}
\* healthCache = cacheMiddleware(30 * 1000), in ticks of 30 seconds
MiddlewareTtl == 1

\* this.cache.get(key) is undefined
NoEntry == [present |-> FALSE, data |-> Null, timestamp |-> 0, expiry |-> 0]

NoGet == [called |-> FALSE, key |-> cacheKey("GET", "/api/health"),
          value |-> Null]
NoWeb == [count |-> 0, method |-> "GET", url |-> "/api/health",
          hit |-> FALSE, invoked |-> FALSE, served |-> 0, status |-> 0,
          body |-> Null]

InitBackend ==
    /\ route = [r \in ServerRequests |-> IdleRoute]
    /\ store = [k \in Keys |-> NoEntry]
    /\ got = NoGet
    /\ web = NoWeb
    /\ clock = 0

\* set(key, data, ttl)
cacheSet(st, key, data, ttl) ==
    [st EXCEPT ![key] = [present |-> TRUE, data |-> data,
                         timestamp |-> clock, expiry |-> clock + ttl]]

\* get with >= in place of >: an entry is dropped at its expiry time
cacheGet_Inclusive(st, key) ==
    LET entry == st[key]
    IN  IF ~entry.present THEN [value |-> Null, store |-> st]
        ELSE IF clock >= entry.expiry
        THEN [value |-> Null, store |-> [st EXCEPT ![key] = NoEntry]]
        ELSE [value |-> entry.data, store |-> st]

\* get(key): what it returns and the Map it leaves
cacheGet(st, key) ==
    LET entry == st[key]
    IN  IF ~entry.present THEN [value |-> Null, store |-> st]
        ELSE IF clock > entry.expiry
        THEN [value |-> Null, store |-> [st EXCEPT ![key] = NoEntry]]
        ELSE [value |-> entry.data, store |-> st]

\* cache.set(key, data, ttl)
CacheSet(key, data, ttl) ==
    /\ store' = cacheSet(store, key, data, ttl)
    /\ UNCHANGED <<route, got, web, clock>>
    /\ UNCHANGED <<apiKey, openai, isInitialized, sreq, shealth>>
    /\ UNCHANGED <<canvasVars, clientVars, pageVars>>

\* cache.get(key)
CacheGet(key) ==
    /\ store' = cacheGet(store, key).store
    /\ got' = [called |-> TRUE, key |-> key,
               value |-> cacheGet(store, key).value]
    /\ UNCHANGED <<route, web, clock>>
    /\ UNCHANGED <<apiKey, openai, isInitialized, sreq, shealth>>
    /\ UNCHANGED <<canvasVars, clientVars, pageVars>>

\* cache.delete(key)
CacheDelete(key) ==
    /\ store' = [store EXCEPT ![key] = NoEntry]
    /\ UNCHANGED <<route, got, web, clock>>
    /\ UNCHANGED <<apiKey, openai, isInitialized, sreq, shealth>>
    /\ UNCHANGED <<canvasVars, clientVars, pageVars>>

\* cache.clear()
CacheClear ==
    /\ store' = [k \in Keys |-> NoEntry]
    /\ UNCHANGED <<route, got, web, clock>>
    /\ UNCHANGED <<apiKey, openai, isInitialized, sreq, shealth>>
    /\ UNCHANGED <<canvasVars, clientVars, pageVars>>

\* cleanup(), run by setInterval every five minutes
Cleanup ==
    /\ store' = [k \in Keys |->
                    IF store[k].present /\ clock > store[k].expiry
                    THEN NoEntry ELSE store[k]]
    /\ UNCHANGED <<route, got, web, clock>>
    /\ UNCHANGED <<apiKey, openai, isInitialized, sreq, shealth>>
    /\ UNCHANGED <<canvasVars, clientVars, pageVars>>

\* a tick of the server clock passes
ClockTick ==
    /\ clock < MaxClock
    /\ clock' = clock + 1
    /\ UNCHANGED <<route, store, got, web>>
    /\ UNCHANGED <<apiKey, openai, isInitialized, sreq, shealth>>
    /\ UNCHANGED <<canvasVars, clientVars, pageVars>>

\* what cacheMiddleware and the handler behind it do with a request, given
\* the status the handler answers with when it runs
served(method, url, status) ==
    LET key == cacheKey(method, url)
        cached == cacheGet(store, key)
        fresh == Body(web.served + 1)
    IN  IF method # "GET"
        THEN [store |-> store, got |-> got, hit |-> FALSE, invoked |-> TRUE,
              status |-> status, body |-> fresh]
        ELSE IF cached.value.truthy
        THEN [store |-> cached.store,
              got |-> [called |-> TRUE, key |-> key, value |-> cached.value],
              hit |-> TRUE, invoked |-> FALSE,
              status |-> 200, body |-> cached.value]
        ELSE [store |-> IF status = 200
                        THEN cacheSet(cached.store, key, fresh, MiddlewareTtl)
                        ELSE cached.store,
              got |-> [called |-> TRUE, key |-> key, value |-> cached.value],
              hit |-> FALSE, invoked |-> TRUE,
              status |-> status, body |-> fresh]

\* the res.json of cacheMiddleware without the test of the status
WebRequest_AnyStatus(method, url, status) ==
    /\ web.count < MaxWeb
    /\ LET out == served(method, url, status)
       IN  /\ store' = IF out.invoked /\ method = "GET"
                       THEN cacheSet(out.store, cacheKey(method, url),
                                     out.body, MiddlewareTtl)
                       ELSE out.store
           /\ got' = out.got
           /\ web' = [count |-> web.count + 1, method |-> method, url |-> url,
                      hit |-> out.hit, invoked |-> out.invoked,
                      served |-> IF out.invoked THEN web.served + 1
                                 ELSE web.served,
                      status |-> out.status, body |-> out.body]
    /\ UNCHANGED <<route, clock>>
    /\ UNCHANGED <<apiKey, openai, isInitialized, sreq, shealth>>
    /\ UNCHANGED <<canvasVars, clientVars, pageVars>>

\* A request to a path behind cacheMiddleware, with the handler it reaches:
\* the handlers of the health routes, of the model list and the catch-all
\* answer with res.json of an object before they return, so the middleware,
\* the handler and the replaced res.json are one step.
WebRequest(method, url, status) ==
    /\ web.count < MaxWeb
    /\ LET out == served(method, url, status)
       IN  /\ store' = out.store
           /\ got' = out.got
           /\ web' = [count |-> web.count + 1, method |-> method, url |-> url,
                      hit |-> out.hit, invoked |-> out.invoked,
                      served |-> IF out.invoked THEN web.served + 1
                                 ELSE web.served,
                      status |-> out.status, body |-> out.body]
    /\ UNCHANGED <<route, clock>>
    /\ UNCHANGED <<apiKey, openai, isInitialized, sreq, shealth>>
    /\ UNCHANGED <<canvasVars, clientVars, pageVars>>

\* ------------------------------------------------------------------------
\* The useAI hook and GamePage (useAI.ts, GamePage.tsx)
\* ------------------------------------------------------------------------

\* checkHealth calls of the hook explored (one on mount, one per interval)
MaxChecks == 2
Checks == 1..MaxChecks
\* clicks on the mode button explored
MaxClicks == 2
\* clicks on the guess button explored
MaxAnalyses == 2
Analyses == 1..MaxAnalyses
\* clicks on a feedback button explored
MaxFeedbacks == 1
Feedbacks == 1..MaxFeedbacks

\* state.lastGuess: null, or the result of the last analysis
NoGuess == [present |-> FALSE, value |-> NoResponse]

\* A JavaScript value that is a boolean, a string or undefined
JSBoolean(b) == [type |-> "boolean", bool |-> b, str |-> ""]
JSString(s) == [type |-> "string", bool |-> FALSE, str |-> s]
JSUndefined == [type |-> "undefined", bool |-> FALSE, str |-> ""]

\* One call of analyzeImage; the a-th call makes the a-th guessImage call.
\*   pc  "idle" not called yet; "compressing" awaiting compressImageData;
\*       "guessing" awaiting aiService.guessImage; "over" it has returned
NoAnalysis == [pc |-> "idle"]

\* One checkHealth call of the hook, with the aiService.checkHealth in it.
\*   pc       "idle" not called yet; "fetching" awaiting fetch; "done"
\*   timer    the abort timer: "none", "armed", "cleared", "fired"
\*   outcome  "pending", "resolved" or "rejected"
\*   value    what it resolved with
IdleCheck ==
    [pc |-> "idle", timer |-> "none", outcome |-> "pending", value |-> FALSE]

\* One handleFeedback call.
\*   pc       "idle" not called yet; "fetching" awaiting the fetch of
\*            aiService.submitFeedback; "done" handleFeedback has completed
\*   verdict  the isCorrect the button passed, comment the feedback it passed
\*   confidence  lastGuess.confidence of the render the button belongs to
\*   sent     a request went to /api/ai-feedback, payload its body
\*   outcome  of the promise of the hook's submitFeedback
\*   delivered  what aiService.submitFeedback returned
IdleFeedback ==
    [pc |-> "idle", verdict |-> FALSE, comment |-> JSUndefined,
     confidence |-> 0, sent |-> FALSE,
     payload |-> [isCorrect |-> JSUndefined, feedback |-> JSUndefined],
     outcome |-> "pending", delivered |-> FALSE]

\* useState initial values.  modes is the pair <<aiService.isOnlineMode,
\* state.isOnline>> the page is in.
InitPage ==
    /\ hook = [isAnalyzing |-> FALSE, lastGuess |-> NoGuess, error |-> FALSE,
               isOnline |-> TRUE]
    /\ analysis = [a \in Analyses |-> NoAnalysis]
    /\ health = [c \in Checks |-> IdleCheck]
    /\ fb = [f \in Feedbacks |-> IdleFeedback]
    /\ showFeedback = FALSE
    /\ gameScore = 0
    /\ clicks = 0

\* ---- health check of the hook ------------------------------------------

\* checkHealth of the hook: aiService.checkHealth() up to its await, or to
\* its return when the service is offline
CheckHealth(c) ==
    /\ health[c].pc = "idle"
    /\ IF ~isOnlineMode
       THEN /\ health' = [health EXCEPT ![c] =
                            [pc |-> "done", timer |-> "none",
                             outcome |-> "resolved", value |-> FALSE]]
            /\ hook' = [hook EXCEPT !.isOnline = FALSE]
       ELSE /\ health' = [health EXCEPT ![c] =
                            [@ EXCEPT !.pc = "fetching", !.timer = "armed"]]
            /\ UNCHANGED hook
    /\ UNCHANGED <<analysis, fb, showFeedback, gameScore, clicks>>
    /\ UNCHANGED <<canvasVars, clientVars, serverVars>>

\* fetch of /api/health resolves: clearTimeout, return response.ok
HealthFetchResolves(c, ok) ==
    /\ health[c].pc = "fetching"
    /\ health' = [health EXCEPT ![c] =
                     [pc |-> "done", timer |-> "cleared",
                      outcome |-> "resolved", value |-> ok]]
    /\ hook' = [hook EXCEPT !.isOnline = ok]
    /\ UNCHANGED <<analysis, fb, showFeedback, gameScore, clicks>>
    /\ UNCHANGED <<canvasVars, clientVars, serverVars>>

\* a failed health check that also takes the service offline
HealthFetchRejects_GoesOffline(c) ==
    /\ health[c].pc = "fetching"
    /\ health' = [health EXCEPT ![c] =
                     [@ EXCEPT !.pc = "done", !.outcome = "resolved",
                               !.value = FALSE]]
    /\ hook' = [hook EXCEPT !.isOnline = FALSE]
    /\ isOnlineMode' = FALSE
    /\ UNCHANGED <<analysis, fb, showFeedback, gameScore, clicks>>
    /\ UNCHANGED <<canvasVars, req, serverVars>>

\* fetch of /api/health rejects: the catch returns false
HealthFetchRejects(c) ==
    /\ health[c].pc = "fetching"
    /\ health' = [health EXCEPT ![c] =
                     [@ EXCEPT !.pc = "done", !.outcome = "resolved",
                               !.value = FALSE]]
    /\ hook' = [hook EXCEPT !.isOnline = FALSE]
    /\ UNCHANGED <<analysis, fb, showFeedback, gameScore, clicks>>
    /\ UNCHANGED <<canvasVars, clientVars, serverVars>>

\* the abort timer of checkHealth fires: a pending fetch rejects
HealthTimerFires(c) ==
    /\ health[c].timer = "armed"
    /\ IF health[c].pc = "fetching"
       THEN /\ health' = [health EXCEPT ![c] =
                            [pc |-> "done", timer |-> "fired",
                             outcome |-> "resolved", value |-> FALSE]]
            /\ hook' = [hook EXCEPT !.isOnline = FALSE]
       ELSE /\ health' = [health EXCEPT ![c] = [@ EXCEPT !.timer = "fired"]]
            /\ UNCHANGED hook
    /\ UNCHANGED <<analysis, fb, showFeedback, gameScore, clicks>>
    /\ UNCHANGED <<canvasVars, clientVars, serverVars>>

\* ---- the mode button ---------------------------------------------------

\* setOfflineMode(offline) of the hook
setOfflineMode(offline) ==
    [isOnlineMode |-> ~offline, isOnline |-> ~offline]

\* onClick={() => setOfflineMode(!isOnline)}
ClickModeButton ==
    /\ clicks < MaxClicks
    /\ clicks' = clicks + 1
    /\ isOnlineMode' = setOfflineMode(~hook.isOnline).isOnlineMode
    /\ hook' = [hook EXCEPT !.isOnline = setOfflineMode(~hook.isOnline).isOnline]
    /\ UNCHANGED <<req, analysis, health, fb, showFeedback, gameScore>>
    /\ UNCHANGED <<canvasVars, serverVars>>

\* ---- analysis ----------------------------------------------------------

\* aiService.guessImage(imageData, mimeType) up to its first await: the
\* guessImage call r after it
guessImage(r) ==
    IF ~isOnlineMode
    THEN [toMock(r) EXCEPT !.online = FALSE]
    ELSE [req[r] EXCEPT !.pc = "fetching", !.online = TRUE,
                        !.fetches = @ + 1, !.timer = "armed"]

\* the calls of analyzeImage that have not returned
pending == {a \in Analyses : analysis[a].pc \in {"compressing", "guessing"}}

\* resetAI() of the hook
resetAI ==
    [isAnalyzing |-> FALSE, lastGuess |-> NoGuess, error |-> FALSE,
     isOnline |-> hook.isOnline]

\* handleStartGame: setGameStarted(true) and resetAI().  The page renders
\* DrawingCanvas only once gameStarted is set, and canvasRef.current is the
\* component from then on: the handler is followed by the mount effect of
\* the canvas.
HandleStartGame ==
    /\ ~mounted
    /\ surface' = White
    /\ Commit(White)
    /\ Ran("mount")
    /\ result' = NoResult
    /\ hook' = resetAI
    /\ UNCHANGED <<isDrawing, tool, now, draws, start>>
    /\ UNCHANGED <<analysis, health, fb, showFeedback, gameScore, clicks>>
    /\ UNCHANGED <<clientVars, serverVars>>

\* the a-th call of analyzeImage up to its first await: isAnalyzing is set
start_analyzeImage(a) ==
    /\ analysis[a].pc = "idle"
    /\ \A b \in Analyses : b < a => analysis[b].pc # "idle"
    /\ analysis' = [analysis EXCEPT ![a] = [pc |-> "compressing"]]
    /\ hook' = [hook EXCEPT !.isAnalyzing = TRUE, !.error = FALSE]

\* handleAIGuess without the isAnalyzing test, on a button that is never
\* disabled
HandleAIGuess_NoTest ==
    /\ mounted
    /\ result' = [returned |-> TRUE, url |-> toDataURL(surface, "png", 100),
                  notified |-> FALSE, downloaded |-> FALSE]
    /\ Ran("exportImage")
    /\ \E a \in Analyses : start_analyzeImage(a)
    /\ UNCHANGED <<history, historyIndex, isDrawing, tool, surface, now,
                   commits, draws, consecutive, start>>
    /\ UNCHANGED <<health, fb, showFeedback, gameScore, clicks>>
    /\ UNCHANGED <<clientVars, serverVars>>

\* handleAIGuess that clears the canvas once the image is taken
HandleAIGuess_Clear ==
    /\ mounted
    /\ ~hook.isAnalyzing
    /\ result' = [returned |-> TRUE, url |-> toDataURL(surface, "png", 100),
                  notified |-> FALSE, downloaded |-> FALSE]
    /\ Ran("exportImage")
    /\ surface' = White
    /\ \E a \in Analyses : start_analyzeImage(a)
    /\ UNCHANGED <<history, historyIndex, isDrawing, tool, now, commits,
                   draws, consecutive, start>>
    /\ UNCHANGED <<health, fb, showFeedback, gameScore, clicks>>
    /\ UNCHANGED <<clientVars, serverVars>>

\* handleAIGuess up to the first await of analyzeImage.  It returns at once
\* without the canvas or while isAnalyzing (the button is disabled then);
\* exportImage('png', 1.0, false) returns the data URL and the page passes
\* no onImageReady.
HandleAIGuess ==
    /\ mounted
    /\ ~hook.isAnalyzing
    /\ result' = [returned |-> TRUE, url |-> toDataURL(surface, "png", 100),
                  notified |-> FALSE, downloaded |-> FALSE]
    /\ Ran("exportImage")
    /\ \E a \in Analyses : start_analyzeImage(a)
    /\ UNCHANGED <<history, historyIndex, isDrawing, tool, surface, now,
                   commits, draws, consecutive, start>>
    /\ UNCHANGED <<health, fb, showFeedback, gameScore, clicks>>
    /\ UNCHANGED <<clientVars, serverVars>>

\* compressImageData resolves (it draws on a canvas element of its own):
\* analyzeImage calls aiService.guessImage
CompressResolves(a) ==
    /\ analysis[a].pc = "compressing"
    /\ req[a].pc = "idle"
    /\ analysis' = [analysis EXCEPT ![a] = [pc |-> "guessing"]]
    /\ req' = [req EXCEPT ![a] = guessImage(a)]
    /\ UNCHANGED <<isOnlineMode, hook, health, fb, showFeedback, gameScore, clicks>>
    /\ UNCHANGED <<canvasVars, serverVars>>

\* compressImageData rejects (img.onerror): the catch of analyzeImage sets
\* the error and returns null; handleAIGuess then shows the feedback panel
CompressRejects(a) ==
    /\ analysis[a].pc = "compressing"
    /\ analysis' = [analysis EXCEPT ![a] = [pc |-> "over"]]
    /\ hook' = [hook EXCEPT !.isAnalyzing = FALSE, !.error = TRUE]
    /\ showFeedback' = TRUE
    /\ UNCHANGED <<health, fb, gameScore, clicks>>
    /\ UNCHANGED <<canvasVars, clientVars, serverVars>>

\* aiService.guessImage has resolved: analyzeImage stores the result and
\* handleAIGuess shows the feedback panel
AnalyzeResolves(a) ==
    /\ analysis[a].pc = "guessing"
    /\ req[a].pc = "done"
    /\ analysis' = [analysis EXCEPT ![a] = [pc |-> "over"]]
    /\ hook' = [hook EXCEPT
                   !.isAnalyzing = FALSE,
                   !.lastGuess = [present |-> TRUE, value |-> req[a].response],
                   !.error = ~req[a].response.success]
    /\ showFeedback' = TRUE
    /\ UNCHANGED <<health, fb, gameScore, clicks>>
    /\ UNCHANGED <<canvasVars, clientVars, serverVars>>

\* handleClearCanvas: clearCanvas() of the canvas, resetAI(), and the
\* feedback panel is hidden
handleClearCanvas ==
    /\ mounted
    /\ surface' = White
    /\ Commit(White)
    /\ Ran("clearCanvas")
    /\ result' = NoResult
    /\ hook' = resetAI
    /\ showFeedback' = FALSE
    /\ UNCHANGED <<isDrawing, tool, now, draws, start>>
    /\ UNCHANGED <<analysis, health, fb, gameScore, clicks>>
    /\ UNCHANGED <<clientVars, serverVars>>

\* the clear button of the page, disabled while isAnalyzing
HandleClearCanvas ==
    /\ ~hook.isAnalyzing
    /\ handleClearCanvas

\* the next-round button, rendered with a successful guess when no analysis
\* runs and the feedback panel is hidden: handleClearCanvas(), the round
\* counter, setShowFeedback(false)
HandleNextRound ==
    /\ hook.lastGuess.present /\ hook.lastGuess.value.success
    /\ ~hook.isAnalyzing
    /\ ~showFeedback
    /\ handleClearCanvas

\* ---- feedback ----------------------------------------------------------

\* the id handleFeedback builds and the id the hook builds
GameGuessId == JSString("game_guess")
GuessId == JSString("guess")

\* The body aiService.submitFeedback(guessId, isCorrect, feedback) posts
feedbackBody(guessId, isCorrect, feedback) ==
    [isCorrect |-> isCorrect, feedback |-> feedback]

\* submitFeedback(isCorrect, feedback?) of the hook: what it hands to
\* aiService.submitFeedback
hookSubmitFeedback(isCorrect, feedback) ==
    feedbackBody(GuessId, isCorrect, feedback)

\* the end of handleFeedback: the score, then the panel is hidden
completed(f, q, ok) ==
    /\ fb' = [fb EXCEPT ![f] = [q EXCEPT !.pc = "done", !.outcome = "resolved",
                                        !.delivered = ok]]
    /\ gameScore' = IF q.verdict
                    THEN gameScore + (IF q.confidence = 0 THEN 50 ELSE q.confidence)
                    ELSE gameScore
    /\ showFeedback' = FALSE

\* handleFeedback(isCorrect, feedback) up to the await of the fetch, or to
\* its end when there is none.  It calls submitFeedback(guessId, isCorrect,
\* feedback): the hook takes (isCorrect, feedback), so the id arrives as
\* isCorrect, the verdict as feedback, and the comment is dropped.
HandleFeedback(f, isCorrect) ==
    /\ fb[f].pc = "idle"
    /\ hook.lastGuess.present /\ hook.lastGuess.value.success
    /\ ~hook.isAnalyzing
    /\ showFeedback
    /\ LET q == [fb[f] EXCEPT !.verdict = isCorrect,
                              !.comment = JSUndefined,
                              !.confidence = hook.lastGuess.value.confidence]
           body == hookSubmitFeedback(GameGuessId, JSBoolean(isCorrect))
       IN  IF ~hook.lastGuess.value.success \/ ~isOnlineMode
           THEN completed(f, q, ~isOnlineMode)
           ELSE /\ fb' = [fb EXCEPT ![f] =
                            [q EXCEPT !.pc = "fetching", !.sent = TRUE,
                                      !.payload = body]]
                /\ UNCHANGED <<gameScore, showFeedback>>
    /\ UNCHANGED <<hook, analysis, health, clicks>>
    /\ UNCHANGED <<canvasVars, clientVars, serverVars>>

\* fetch of /api/ai-feedback resolves: submitFeedback returns response.ok
FeedbackFetchResolves(f, ok) ==
    /\ fb[f].pc = "fetching"
    /\ completed(f, fb[f], ok)
    /\ UNCHANGED <<hook, analysis, health, clicks>>
    /\ UNCHANGED <<canvasVars, clientVars, serverVars>>

\* fetch of /api/ai-feedback rejects: the catch returns false
FeedbackFetchRejects(f) ==
    /\ fb[f].pc = "fetching"
    /\ completed(f, fb[f], FALSE)
    /\ UNCHANGED <<hook, analysis, health, clicks>>
    /\ UNCHANGED <<canvasVars, clientVars, serverVars>>

\* ------------------------------------------------------------------------
\* Specifications
\* ------------------------------------------------------------------------

Init ==
    /\ InitCanvas
    /\ InitClient
    /\ InitServer({FALSE})
    /\ InitServerHealth
    /\ InitBackend
    /\ InitPage

\* The canvas at a frozen clock.  No handler reads a timestamp, so the
\* cursor, the pixels and the shape of the history do not depend on when
\* the commits are made.
Next == NextCanvas
Spec == Init /\ [][Next]_vars

\* The canvas with the clock running
NextClock == NextCanvas \/ Tick
SpecClock == Init /\ [][NextClock]_vars

\* The gestures on the canvas: the tool buttons, mouse-down and touch-start,
\* the moves, mouse-up, mouse-leave and touch-end, and the Escape key.
NextGesture ==
    \/ Mount
    \/ \E key \in Tools : SetTool(key)
    \/ StartDrawing
    \/ Draw
    \/ StopDrawing
    \/ Escape
SpecGesture == Init /\ [][NextGesture]_vars

\* The service with the component as constructed.  A timer that was set
\* fires: the setTimeout of getMockResponse is never cleared.
InitService == Init /\ start = 0
SpecClient ==
    /\ InitService
    /\ [][NextClient]_vars
    /\ \A r \in Requests : WF_vars(\E pick \in Picks : MockTimerFires(r, pick))

\* The service with both kinds of timer firing: the abort timer of
\* callAIApi fires unless clearTimeout has cleared it.  The network owes no
\* answer: a fetch or a body may stay pending.
SpecOnline ==
    /\ InitService
    /\ [][NextClient]_vars
    /\ \A r \in Requests : WF_vars(\E pick \in Picks : MockTimerFires(r, pick))
    /\ \A r \in Requests : WF_vars(AbortTimerFires(r))

\* The service with the mode set at any time, on a network that delivers the
\* body of a response whose headers have arrived (or fails it): the timers
\* fire as in SpecOnline, and response.json() settles.  A fetch may stay
\* pending.
NextFlip ==
    \/ \E online \in BOOLEAN : SetOnlineMode(online)
    \/ \E r \in Requests : GuessImage(r)
    \/ \E r \in Requests, ok \in BOOLEAN : FetchResolves(r, ok)
    \/ \E r \in Requests : FetchRejects(r)
    \/ \E r \in Requests : AbortTimerFires(r)
    \/ \E r \in Requests, success \in BOOLEAN, data \in RemoteData :
          JsonResolves(r, success, data)
    \/ \E r \in Requests : JsonRejects(r)
    \/ \E r \in Requests, pick \in PagePicks : MockTimerFires(r, pick)
SpecFlip ==
    /\ InitService
    /\ [][NextFlip]_vars
    /\ \A r \in Requests :
          WF_vars(\E pick \in PagePicks : MockTimerFires(r, pick))
    /\ \A r \in Requests : WF_vars(AbortTimerFires(r))
    /\ \A r \in Requests :
          WF_vars(JsonRejects(r)
                    \/ \E success \in BOOLEAN, data \in RemoteData :
                          JsonResolves(r, success, data))

\* The server, started with or without a key in its environment.  A timer
\* that was set fires: the setTimeout of guessImage is never cleared.  The
\* remote service owes no answer.
InitEnv ==
    /\ InitCanvas /\ start = 0
    /\ InitClient
    /\ InitServer(BOOLEAN)
    /\ InitServerHealth
    /\ InitBackend
    /\ InitPage
SpecServer ==
    /\ InitEnv
    /\ [][NextServer]_vars
    /\ \A r \in ServerRequests :
          WF_vars(\E rnd \in Randoms : ServerTimerFires(r, rnd))

\* Every way a guess is produced without a reachable remote model: the
\* server, and the mock of the browser-side service (offline, or after a
\* failed fetch).  The two run in different processes and share no state;
\* they are followed one at a time.
ServerQuiet == \A r \in ServerRequests : sreq[r].pc = "idle"
ClientQuiet == \A r \in Requests : req[r].pc = "idle"
NextGuess ==
    \/ ClientQuiet /\ \E key \in BOOLEAN : SetApiKey(key)
    \/ ClientQuiet /\ \E r \in ServerRequests, image \in Images \cup {NotAString},
                        rnd \in Randoms : ServerGuessImage(r, image, rnd)
    \/ ClientQuiet /\ \E r \in ServerRequests, response \in RemoteResponses,
                        rnd \in Randoms : OpenAIResolves(r, response, rnd)
    \/ ClientQuiet /\ \E r \in ServerRequests, error \in RemoteErrors,
                        rnd \in Randoms : OpenAIRejects(r, error, rnd)
    \/ ClientQuiet /\ \E r \in ServerRequests, rnd \in Randoms :
                        ServerTimerFires(r, rnd)
    \/ ServerQuiet /\ \E online \in BOOLEAN : SetOnlineMode(online)
    \/ ServerQuiet /\ \E r \in Requests : GuessImage(r)
    \/ ServerQuiet /\ \E r \in Requests : FetchRejects(r)
    \/ ServerQuiet /\ \E r \in Requests : AbortTimerFires(r)
    \/ ServerQuiet /\ \E r \in Requests, pick \in Picks : MockTimerFires(r, pick)
SpecGuess == InitEnv /\ [][NextGuess]_vars

\* The health checks of the browser and of the server, and the mode button.
\* The abort timer of checkHealth fires unless it was cleared.
NextHealth ==
    \/ \E c \in Checks : CheckHealth(c)
    \/ \E c \in Checks, ok \in BOOLEAN : HealthFetchResolves(c, ok)
    \/ \E c \in Checks : HealthFetchRejects(c)
    \/ \E c \in Checks : HealthTimerFires(c)
    \/ ClickModeButton
    \/ \E key \in BOOLEAN : SetApiKey(key)
    \/ \E h \in Listings : CheckServiceHealth(h)
    \/ \E h \in Listings, response \in ListedModels :
          ModelsListResolves(h, response)
    \/ \E h \in Listings : ModelsListRejects(h)
SpecHealth ==
    /\ InitEnv
    /\ [][NextHealth]_vars
    /\ \A c \in Checks : WF_vars(HealthTimerFires(c))

\* The health checks of the hook running while guessImage calls are made and
\* answered, and the mode button.  A check runs alongside a call in every
\* order; the checks follow one another, and so do the calls.  The remote
\* side answers no call here: a call made online ends in the mock.
ChecksSettled == \A c \in Checks : health[c].pc \in {"idle", "done"}
RequestsSettled == \A r \in Requests : req[r].pc \in {"idle", "done"}
NextAdvisory ==
    \/ ChecksSettled /\ \E c \in Checks : CheckHealth(c)
    \/ \E c \in Checks, ok \in BOOLEAN : HealthFetchResolves(c, ok)
    \/ \E c \in Checks : HealthFetchRejects(c)
    \/ \E c \in Checks : HealthTimerFires(c)
    \/ ClickModeButton
    \/ RequestsSettled /\ \E r \in Requests : GuessImage(r)
    \/ \E r \in Requests : FetchRejects(r)
    \/ \E r \in Requests : AbortTimerFires(r)
    \/ \E r \in Requests, pick \in PagePicks : MockTimerFires(r, pick)
SpecAdvisory == InitService /\ [][NextAdvisory]_vars

\* The game page after the health checks, with the mode left as they and
\* the mode button have set it: the service and the hook agree on the mode,
\* or a health check has failed and the button was not clicked since.  The
\* steps of the page itself (a resolved promise continuing, a timer firing)
\* are taken; the network owes no answer.
Modes == { <<TRUE, TRUE>>, <<TRUE, FALSE>>, <<FALSE, FALSE>> }
InitFeedback ==
    /\ InitCanvas /\ start = 0
    /\ req = [r \in Requests |-> IdleRequest]
    /\ InitServer({FALSE})
    /\ InitServerHealth
    /\ InitBackend
    /\ analysis = [a \in Analyses |-> NoAnalysis]
    /\ health = [c \in Checks |-> IdleCheck]
    /\ fb = [f \in Feedbacks |-> IdleFeedback]
    /\ showFeedback = FALSE
    /\ gameScore = 0
    /\ clicks = 0
    /\ \E modes \in Modes :
          /\ isOnlineMode = modes[1]
          /\ hook = [isAnalyzing |-> FALSE, lastGuess |-> NoGuess,
                     error |-> FALSE, isOnline |-> modes[2]]
NextFeedback ==
    \/ HandleStartGame
    \/ HandleAIGuess
    \/ \E a \in Analyses : CompressResolves(a)
    \/ \E a \in Analyses : CompressRejects(a)
    \/ \E a \in Analyses : AnalyzeResolves(a)
    \/ \E r \in Requests, ok \in BOOLEAN : FetchResolves(r, ok)
    \/ \E r \in Requests : FetchRejects(r)
    \/ \E r \in Requests : AbortTimerFires(r)
    \/ \E r \in Requests, success \in BOOLEAN, data \in RemoteData :
          JsonResolves(r, success, data)
    \/ \E r \in Requests : JsonRejects(r)
    \/ \E r \in Requests, pick \in Picks : MockTimerFires(r, pick)
    \/ \E f \in Feedbacks, isCorrect \in BOOLEAN : HandleFeedback(f, isCorrect)
    \/ \E f \in Feedbacks, ok \in BOOLEAN : FeedbackFetchResolves(f, ok)
    \/ \E f \in Feedbacks : FeedbackFetchRejects(f)
SpecFeedback ==
    /\ InitFeedback
    /\ [][NextFeedback]_vars
    /\ \A a \in Analyses : WF_vars(CompressResolves(a) \/ CompressRejects(a))
    /\ \A a \in Analyses : WF_vars(AnalyzeResolves(a))
    /\ \A r \in Requests : WF_vars(\E pick \in Picks : MockTimerFires(r, pick))
    /\ \A r \in Requests : WF_vars(AbortTimerFires(r))

\* The guess pipeline of the page with every outcome of its request and
\* with what the browser guarantees: the image of compressImageData loads or
\* fails, a resolved promise continues, a timer that was set and not cleared
\* fires.  The network owes no answer: a fetch or a body may stay pending.
NextAnalysis ==
    \/ HandleStartGame
    \/ HandleAIGuess
    \/ \E a \in Analyses : CompressResolves(a)
    \/ \E a \in Analyses : CompressRejects(a)
    \/ \E a \in Analyses : AnalyzeResolves(a)
    \/ \E r \in Requests, ok \in BOOLEAN : FetchResolves(r, ok)
    \/ \E r \in Requests : FetchRejects(r)
    \/ \E r \in Requests : AbortTimerFires(r)
    \/ \E r \in Requests, success \in BOOLEAN, data \in RemoteData :
          JsonResolves(r, success, data)
    \/ \E r \in Requests : JsonRejects(r)
    \/ \E r \in Requests, pick \in PagePicks : MockTimerFires(r, pick)
SpecAnalysis ==
    /\ InitFeedback
    /\ [][NextAnalysis]_vars
    /\ \A a \in Analyses : WF_vars(CompressResolves(a) \/ CompressRejects(a))
    /\ \A a \in Analyses : WF_vars(AnalyzeResolves(a))
    /\ \A r \in Requests :
          WF_vars(\E pick \in PagePicks : MockTimerFires(r, pick))
    /\ \A r \in Requests : WF_vars(AbortTimerFires(r))

\* POST /api/ai-guess with the guessImage call behind it.  The timer of
\* guessImage fires, and the handler continues once guessImage has settled.
NextRoute ==
    \/ \E key \in BOOLEAN : SetApiKey(key)
    \/ \E r \in ServerRequests, body \in RouteBodies, rnd \in Randoms :
          PostAiGuess(r, body, rnd)
    \/ \E r \in ServerRequests, response \in RemoteResponses, rnd \in Randoms :
          OpenAIResolves(r, response, rnd)
    \/ \E r \in ServerRequests, error \in RemoteErrors, rnd \in Randoms :
          OpenAIRejects(r, error, rnd)
    \/ \E r \in ServerRequests, rnd \in Randoms : ServerTimerFires(r, rnd)
    \/ \E r \in ServerRequests : RouteContinues(r)
SpecRoute ==
    /\ InitEnv
    /\ [][NextRoute]_vars
    /\ \A r \in ServerRequests :
          WF_vars(\E rnd \in Randoms : ServerTimerFires(r, rnd))
    /\ \A r \in ServerRequests : WF_vars(RouteContinues(r))

\* The exported cache used through its methods, with any data.
NextCache ==
    \/ \E key \in Keys, data \in CachedValues,
          ttl \in Ttls : CacheSet(key, data, ttl)
    \/ \E key \in Keys : CacheGet(key)
    \/ \E key \in Keys : CacheDelete(key)
    \/ CacheClear
    \/ Cleanup
    \/ ClockTick
SpecCache == InitEnv /\ [][NextCache]_vars

\* The cache as the server uses it: through cacheMiddleware only, with the
\* periodic cleanup.
NextWeb ==
    \/ \E method \in Methods, url \in Urls, status \in Statuses :
          WebRequest(method, url, status)
    \/ Cleanup
    \/ ClockTick
SpecWeb == InitEnv /\ [][NextWeb]_vars

\* The game page from its first render: the start button, the guess button
\* with the pipeline behind it, the clear, next-round and feedback buttons.
\* Every request ends in the mock here (offline, a rejected fetch, the abort
\* timer), with its first or its last entry; SpecPipeline follows the remote
\* answer.
NextPage ==
    \/ HandleStartGame
    \/ HandleAIGuess
    \/ \E a \in Analyses : CompressResolves(a)
    \/ \E a \in Analyses : CompressRejects(a)
    \/ \E a \in Analyses : AnalyzeResolves(a)
    \/ \E r \in Requests : FetchRejects(r)
    \/ \E r \in Requests : AbortTimerFires(r)
    \/ \E r \in Requests, pick \in PagePicks : MockTimerFires(r, pick)
    \/ HandleClearCanvas
    \/ HandleNextRound
    \/ \E f \in Feedbacks, isCorrect \in BOOLEAN : HandleFeedback(f, isCorrect)
    \/ \E f \in Feedbacks, ok \in BOOLEAN : FeedbackFetchResolves(f, ok)
    \/ \E f \in Feedbacks : FeedbackFetchRejects(f)
SpecPage == InitService /\ [][NextPage]_vars

\* One pass of the guess pipeline, from the click to the end of
\* analyzeImage, with every outcome of the request, while the user draws on
\* the canvas and undoes.
PipelineIdle == \A a \in Analyses : analysis[a].pc = "idle"
NextPipeline ==
    \/ HandleStartGame
    \/ PipelineIdle /\ HandleAIGuess
    \/ \E a \in Analyses : CompressResolves(a)
    \/ \E a \in Analyses : CompressRejects(a)
    \/ \E a \in Analyses : AnalyzeResolves(a)
    \/ \E r \in Requests, ok \in BOOLEAN : FetchResolves(r, ok)
    \/ \E r \in Requests : FetchRejects(r)
    \/ \E r \in Requests : AbortTimerFires(r)
    \/ \E r \in Requests, success \in BOOLEAN, data \in RemoteData :
          JsonResolves(r, success, data)
    \/ \E r \in Requests : JsonRejects(r)
    \/ \E r \in Requests, pick \in PagePicks : MockTimerFires(r, pick)
    \/ StartDrawing
    \/ Draw
    \/ StopDrawing
    \/ Undo
SpecPipeline == InitService /\ [][NextPipeline]_vars

\* ------------------------------------------------------------------------
\* Properties of the canvas history
\* ------------------------------------------------------------------------

\* the handler that ran last called saveToHistory
JustCommitted ==
    \/ lastOp \in {"mount", "clearCanvas"}
    \/ lastOp = "stopDrawing" /\ prev.isDrawing /\ shapes = "none"

\* a step that calls saveToHistory
CommitStep == commits' = commits + 1

Objs(h) == {h[k].obj : k \in 1..Len(h)}

\* C1: after any sequence of commits, undos and redos the history holds at
\* most MaxHistory entries, and right after a commit the snapshot at the
\* cursor is the one just committed: the newest ImageData object, holding
\* the pixels the canvas shows.
C1_CapacityAndCurrent ==
    /\ Len(history) <= MaxHistory
    /\ JustCommitted =>
          /\ historyIndex >= 0 /\ historyIndex < Len(history)
          /\ At(history, historyIndex).obj = commits
          /\ At(history, historyIndex).imageData = surface

\* a commit was made on a full history
C1_Witness ==
    /\ JustCommitted
    /\ commits > MaxHistory
    /\ prev.length = MaxHistory
    /\ Len(history) = MaxHistory

\* C2: whenever the history is non-empty the cursor is a valid index of it;
\* the history is empty, with the cursor at -1, only before the first commit.
C2_CursorInRange ==
    /\ Len(history) > 0 => (0 <= historyIndex /\ historyIndex < Len(history))
    /\ Len(history) = 0 => (commits = 0 /\ historyIndex = -1)

\* undo was called at the oldest entry of a history with several entries
C2_Witness ==
    /\ lastOp = "undo"
    /\ prev.historyIndex = 0
    /\ historyIndex = 0
    /\ Len(history) > 1

\* C3: a commit on a full history with the cursor on the last entry evicts
\* the oldest entry, keeps the other MaxHistory - 1 in order, appends the new
\* snapshot, leaves the length at MaxHistory and the cursor at
\* MaxHistory - 1; after MaxHistory + 1 commits in a row the first of them
\* is no longer in the history.
C3_EvictOldest ==
    /\ [][(CommitStep /\ Len(history) = MaxHistory
                      /\ historyIndex = MaxHistory - 1)
            => /\ Len(history') = MaxHistory
               /\ historyIndex' = MaxHistory - 1
               /\ SubSeq(history', 1, MaxHistory - 1) = Tail(history)
               /\ history'[MaxHistory].obj = commits'
               /\ history'[MaxHistory].imageData = surface'
               /\ history[1].obj \notin Objs(history')]_vars
    /\ [](consecutive > MaxHistory
            => (commits - consecutive + 1) \notin Objs(history))

\* MaxHistory + 1 commits in a row, the last of them on a full history
C3_Witness ==
    /\ JustCommitted
    /\ consecutive = MaxHistory + 1
    /\ commits = MaxHistory + 1
    /\ prev.length = MaxHistory
    /\ prev.historyIndex = MaxHistory - 1
    /\ Len(history) = MaxHistory
    /\ historyIndex = MaxHistory - 1

\* C4: when undo moved the cursor, a redo right after it puts the cursor
\* back where it was and shows the snapshot that was current before the undo.
C4_UndoThenRedo ==
    [][(lastOp = "undo" /\ prev.historyIndex > 0
            /\ historyIndex = prev.historyIndex - 1 /\ Redo)
         => /\ historyIndex' = prev.historyIndex
            /\ At(history', historyIndex') = prev.current
            /\ surface' = prev.current.imageData]_vars

\* redo ran right after an undo that had moved the cursor, and moved it back
C4_Witness ==
    /\ lastOp = "redo"
    /\ prev.after = "undo"
    /\ historyIndex = prev.historyIndex + 1
    /\ surface # prev.surface

\* C5: a commit drops every entry after the cursor before it appends: right
\* after it canRedo() is false, the entries up to the old cursor are kept
\* (but for the evicted one) and none of the entries that redo could reach is
\* in the history.
C5_CommitDropsRedo ==
    [][CommitStep
         => /\ ~canRedo'
            /\ \A k \in (historyIndex + 2)..Len(history) :
                  history[k].obj \notin Objs(history')
            /\ Objs(history') \subseteq
                  {history[k].obj : k \in 1..(historyIndex + 1)} \cup {commits'}
            /\ Len(history') >= IF historyIndex + 2 > MaxHistory
                                THEN MaxHistory ELSE historyIndex + 2]_vars

\* a commit was made right after an undo, with entries ahead of the cursor
C5_Witness ==
    /\ JustCommitted
    /\ prev.after = "undo"
    /\ prev.historyIndex < prev.length - 1
    /\ Len(history) = prev.historyIndex + 2
    /\ ~canRedo

\* C6 as claimed: in every reachable state canUndo() is false iff the cursor
\* is 0, and canRedo() is false iff the cursor is length - 1.
C6_AsClaimed ==
    /\ ~canUndo <=> historyIndex = 0
    /\ ~canRedo <=> historyIndex = Len(history) - 1

\* C6 amended: on a non-empty history canUndo() is false iff the cursor is 0
\* and canRedo() is false iff the cursor is length - 1; on the empty history
\* (cursor -1) both are false.
C6_NonEmptyHistory ==
    /\ Len(history) > 0 =>
          /\ ~canUndo <=> historyIndex = 0
          /\ ~canRedo <=> historyIndex = Len(history) - 1
    /\ Len(history) = 0 => (~canUndo /\ ~canRedo /\ historyIndex = -1)

\* the cursor is inside a history of three entries: both are true
C6_Witness ==
    /\ Len(history) >= 3
    /\ historyIndex = 1
    /\ canUndo
    /\ canRedo

\* C7: undo at the oldest entry and redo at the newest entry change neither
\* the history nor the cursor nor the pixels; elsewhere undo moves the cursor
\* back by exactly one and redo forward by exactly one.
C7_UndoRedoSteps ==
    /\ [][Undo => IF historyIndex = 0
                  THEN UNCHANGED <<history, historyIndex, surface>>
                  ELSE historyIndex' = historyIndex - 1]_vars
    /\ [][Redo => IF historyIndex = Len(history) - 1
                  THEN UNCHANGED <<history, historyIndex, surface>>
                  ELSE historyIndex' = historyIndex + 1]_vars

\* redo was called at the newest entry, with entries behind the cursor
C7_Witness ==
    /\ lastOp = "redo"
    /\ prev.historyIndex = prev.length - 1
    /\ historyIndex = Len(history) - 1
    /\ historyIndex > 0

\* C8: clearCanvas commits a blank snapshot: the entries up to the cursor
\* are kept (the oldest one evicted when the capacity is exceeded), the blank
\* snapshot is current, and an undo right after it shows the snapshot that
\* was current before the clear.
C8_ClearIsCommit ==
    /\ [][ClearCanvas
            => LET kept == SubSeq(history, 1, historyIndex + 1)
                   rest == IF Len(kept) < MaxHistory THEN kept ELSE Tail(kept)
               IN  /\ Len(history') = Len(rest) + 1
                   /\ SubSeq(history', 1, Len(rest)) = rest
                   /\ historyIndex' = Len(rest)
                   /\ At(history', historyIndex').imageData = White
                   /\ At(history', historyIndex').obj = commits'
                   /\ surface' = White]_vars
    /\ [][(lastOp = "clearCanvas" /\ Undo)
            => /\ historyIndex' = historyIndex - 1
               /\ At(history', historyIndex') = prev.current
               /\ surface' = prev.current.imageData]_vars

\* undo ran right after a clear of a drawn canvas and brought the drawing
\* back
C8_Witness ==
    /\ lastOp = "undo"
    /\ prev.after = "clearCanvas"
    /\ prev.surface = White
    /\ historyIndex = prev.historyIndex - 1
    /\ surface # White

\* C9: exportImage changes neither the history nor the cursor nor the
\* pixels, whatever the format, the quality and the download flag, with or
\* without an onImageReady callback.
C9_ExportKeepsCanvas ==
    [][lastOp' = "exportImage" /\ result'.returned
         => UNCHANGED <<history, historyIndex, surface, isDrawing>>]_vars

\* a JPEG was exported and handed to onImageReady in the middle of a stroke
C9_Witness ==
    /\ lastOp = "exportImage"
    /\ result.returned
    /\ result.notified
    /\ result.url.mime = "image/jpeg"
    /\ isDrawing
    /\ surface # At(history, historyIndex).imageData

\* ------------------------------------------------------------------------
\* Properties of the browser-side service
\* ------------------------------------------------------------------------

\* C10: a guessImage call issued in offline mode never calls fetch, and it
\* resolves, with success = true.
C10_OfflineNoRemoteCall ==
    /\ [](\A r \in Requests :
            (req[r].pc # "idle" /\ ~req[r].online)
               => /\ req[r].fetches = 0
                  /\ req[r].timer = "none"
                  /\ req[r].pc \in {"mockDelay", "done"}
                  /\ req[r].pc = "done" => req[r].response.success)
    /\ \A r \in Requests :
          (req[r].pc # "idle" /\ ~req[r].online)
             ~> (req[r].pc = "done" /\ req[r].response.success)

\* a call issued offline has resolved although the mode is online again and
\* another call is fetching
C10_Witness ==
    \E r, q \in Requests :
        /\ req[r].pc = "done"
        /\ ~req[r].online
        /\ req[r].response.success
        /\ req[r].fetches = 0
        /\ isOnlineMode
        /\ req[q].pc = "fetching"

\* ------------------------------------------------------------------------
\* Properties of the server-side guessImage
\* ------------------------------------------------------------------------

Range(s) == {s[i] : i \in 1..Len(s)}

\* the guesses of the three pools of getIntelligentMockResponse
FallbackGuesses ==
    Range(largeImageGuesses) \cup Range(smallImageGuesses) \cup Range(defaultGuesses)

\* the messages guessImage catches when the remote call fails or the timer
\* wins: a transport error, 401, 429, quota, a value that is no Error, the
\* timeout
RemoteFailureMessages ==
    {rethrown(e).message : e \in {x \in RemoteErrors : x.isError}}
        \cup {UnknownMessage, TimeoutMessage}

\* C11: whenever the catch of the server's guessImage has caught a remote
\* failure (transport error, 401, 429, quota, timeout), guessImage has
\* resolved, not rejected: success is true and the guess is a non-empty
\* string of one of the three fallback pools.  guessImage rejects for no
\* image string at all.
C11_RemoteFailureFallsBack ==
    \A r \in ServerRequests :
        /\ (sreq[r].reason.given /\ sreq[r].reason.message \in RemoteFailureMessages)
              => /\ sreq[r].pc = "done"
                 /\ sreq[r].result.success
                 /\ sreq[r].result.guess # <<>>
                 /\ sreq[r].result.guess \in FallbackGuesses
        /\ sreq[r].pc = "failed" => ~sreq[r].image.isString

\* a 429 of the remote service was caught and answered from a pool
C11_Witness ==
    \E r \in ServerRequests :
        /\ sreq[r].pc = "done"
        /\ sreq[r].api = "rejected"
        /\ sreq[r].reason.message = RateLimitMessage
        /\ sreq[r].result.guess \in FallbackGuesses

\* C12: with a key configured, a guessImage that awaits the race always
\* resolves, because the timer fires; when it has resolved while the remote
\* call is still pending, the timer has fired and the result is a fallback
\* for the timeout.
C12_TimerResolves ==
    /\ \A r \in ServerRequests : (sreq[r].pc = "racing") ~> (sreq[r].pc = "done")
    /\ [](\A r \in ServerRequests :
             (sreq[r].pc = "done" /\ sreq[r].api = "pending")
                => /\ sreq[r].timer = "fired"
                   /\ sreq[r].reason.message = TimeoutMessage
                   /\ sreq[r].result.success
                   /\ sreq[r].result.guess \in FallbackGuesses)

\* guessImage has resolved and the remote call has still not completed
C12_Witness ==
    \E r \in ServerRequests :
        /\ sreq[r].pc = "done"
        /\ sreq[r].api = "pending"
        /\ sreq[r].timer = "fired"

\* ------------------------------------------------------------------------
\* Properties of the browser-side guessImage in online mode
\* ------------------------------------------------------------------------

\* C13: in online mode a guessImage that awaits the fetch or the body of
\* the response always resolves.
C13_OnlineAlwaysResolves ==
    \A r \in Requests :
        (req[r].pc \in {"fetching", "parsing"}) ~> (req[r].pc = "done")

\* ------------------------------------------------------------------------
\* Properties of the results
\* ------------------------------------------------------------------------

\* C14: every fallback result the server's guessImage returns from its
\* catch carries a failureReason: with the timeout word when the timer won,
\* with the rate-limit word when the remote call raised a 429.
C14_FallbackCarriesReason ==
    \A r \in ServerRequests :
        (sreq[r].pc = "done" /\ sreq[r].reason.given)
           => /\ "failureReason" \in DOMAIN sreq[r].result
              /\ (sreq[r].reason.message = TimeoutMessage
                     => includes(sreq[r].result.failureReason, "chaoshi"))
              /\ (sreq[r].reason.message = RateLimitMessage
                     => includes(sreq[r].result.failureReason, "pinlv xianzhi"))

\* C15: every result of the server's guessImage (remote value or fallback)
\* and every mock result of the browser-side guessImage has at most
\* MaxSuggestions suggestions.
C15_AtMostFourSuggestions ==
    /\ \A r \in ServerRequests :
          sreq[r].pc = "done" => Len(sreq[r].result.suggestions) <= MaxSuggestions
    /\ \A r \in Requests :
          (req[r].pc = "done" /\ req[r].response.source = "mock")
             => Len(req[r].response.suggestions) <= MaxSuggestions

\* the remote guess names an animal, a plant, a thing and a person: twelve
\* suggestions were found and four returned
C15_Witness ==
    \E r \in ServerRequests :
        /\ sreq[r].pc = "done"
        /\ sreq[r].result.guess = <<"cat", "flower", "car", "person">>
        /\ Len(generateSmartSuggestions_NoSlice(sreq[r].result.guess)) > MaxSuggestions
        /\ Len(sreq[r].result.suggestions) = MaxSuggestions

\* C16: the race of the server's guessImage has one winner.  The step that
\* resolves guessImage is the timer firing, and then the result is the
\* fallback for the timeout, or the remote call completing, and then the
\* result is its value or the fallback for its error.  Once guessImage has
\* resolved, no later step (the remote call completing, the timer firing)
\* changes the result or produces another one.
C16_OneWinner ==
    /\ [][\A r \in ServerRequests :
             /\ sreq[r].pc = "done"
                   => /\ sreq'[r].pc = "done"
                      /\ sreq'[r].result = sreq[r].result
                      /\ sreq'[r].reason = sreq[r].reason
                      /\ sreq'[r].returns = sreq[r].returns
             /\ (sreq[r].pc = "racing" /\ sreq'[r].pc = "done")
                   => \/ /\ sreq'[r].timer = "fired" /\ sreq[r].timer = "armed"
                         /\ sreq'[r].api = "pending"
                         /\ sreq'[r].reason.message = TimeoutMessage
                      \/ /\ sreq'[r].api = "fulfilled" /\ sreq'[r].timer = "armed"
                         /\ ~sreq'[r].reason.given
                      \/ /\ sreq'[r].api = "rejected" /\ sreq'[r].timer = "armed"
                         /\ sreq'[r].reason.given
                         /\ sreq'[r].reason.message # TimeoutMessage]_vars
    /\ [](\A r \in ServerRequests :
             sreq[r].returns = IF sreq[r].pc = "done" THEN 1 ELSE 0)

\* the timer won and the remote call resolved afterwards
C16_Witness ==
    \E r \in ServerRequests :
        /\ sreq[r].pc = "done"
        /\ sreq[r].timer = "fired"
        /\ sreq[r].reason.message = TimeoutMessage
        /\ sreq[r].api = "fulfilled"

\* ------------------------------------------------------------------------
\* Properties of the game page
\* ------------------------------------------------------------------------

\* C17: every click on the mode button flips the mode guessImage reads.
C17_ClickFlipsMode ==
    [][clicks' = clicks + 1 => isOnlineMode' = ~isOnlineMode]_vars

\* C18: submitFeedback never rejects, and a handleFeedback that awaits the
\* feedback request always completes.
C18_FeedbackCompletes ==
    /\ [](\A f \in Feedbacks : fb[f].outcome # "rejected")
    /\ \A f \in Feedbacks : (fb[f].pc = "fetching") ~> (fb[f].pc = "done")

\* C19: the body sent to the feedback endpoint carries the verdict the user
\* chose as isCorrect and the user's comment as feedback.
C19_PayloadCarriesVerdict ==
    \A f \in Feedbacks :
        fb[f].sent
           => /\ fb[f].payload.isCorrect = JSBoolean(fb[f].verdict)
              /\ fb[f].payload.feedback = fb[f].comment

\* C20: no health check rejects, and every health check that awaits the
\* remote side resolves: to false when the remote side never answers.
C20_HealthAlwaysResolves ==
    /\ [](\A c \in Checks : health[c].outcome # "rejected")
    /\ [](\A h \in Listings : shealth[h].outcome # "rejected")
    /\ \A c \in Checks : (health[c].pc = "fetching") ~> (health[c].pc = "done")
    /\ \A h \in Listings : (shealth[h].pc = "listing") ~> (shealth[h].pc = "done")

\* ------------------------------------------------------------------------
\* Properties of the guess pipeline of the page
\* ------------------------------------------------------------------------

\* C21: at most one call of analyzeImage is pending at a time, whatever the
\* order of the clicks on the buttons of the page and of the completions of
\* the requests; isAnalyzing is set exactly while a call is pending.
C21_SingleFlight ==
    /\ Cardinality(pending) <= 1
    /\ hook.isAnalyzing <=> pending # {}

\* a second call of analyzeImage awaits its request after the first one has
\* returned and the clear or the next-round button has reset the hook
C21_Witness ==
    \E a, b \in Analyses :
        /\ analysis[a].pc = "over"
        /\ analysis[b].pc = "guessing"
        /\ req[b].pc = "fetching"
        /\ ~hook.lastGuess.present
        /\ Len(history) >= 2

\* C22: no step of the guess pipeline, from handleAIGuess to the end of
\* analyzeImage (the export, the compression, every step of the request,
\* the result or the error being stored), changes the history, the cursor
\* or the pixels of the canvas.
C22_PipelineKeepsCanvas ==
    [][(analysis' # analysis \/ req' # req)
         => UNCHANGED <<history, historyIndex, surface>>]_vars

\* the pipeline has run from the export to the stored guess on a canvas
\* with a committed stroke, and no handler of the canvas ran meanwhile
C22_Witness ==
    \E a \in Analyses :
        /\ analysis[a].pc = "over"
        /\ hook.lastGuess.present
        /\ lastOp = "exportImage"
        /\ result.url.data = surface
        /\ surface # White
        /\ Len(history) >= 2
        /\ At(history, historyIndex).imageData = surface

\* ------------------------------------------------------------------------
\* Properties of the drawing gestures
\* ------------------------------------------------------------------------

\* C23: a stopDrawing (mouse-up, mouse-leave, touch-end) that ends a stroke
\* in progress appends exactly one snapshot, with whatever tool: one new
\* ImageData object, holding the pixels shown, at the cursor, which is the
\* newest entry; a stopDrawing with no stroke in progress, as the
\* mouse-leave after the mouse-up, appends none.
C23_GestureCommitsOnce ==
    /\ [][(StopDrawing /\ isDrawing)
            => /\ ~isDrawing'
               /\ commits' = commits + 1
               /\ Objs(history') \ Objs(history) = {commits'}
               /\ historyIndex' = Len(history') - 1
               /\ At(history', historyIndex').obj = commits'
               /\ At(history', historyIndex').imageData = surface
               /\ Len(history') = IF historyIndex + 2 > MaxHistory
                                  THEN MaxHistory ELSE historyIndex + 2]_vars
    /\ [][(StopDrawing /\ ~isDrawing)
            => UNCHANGED <<history, historyIndex, commits, isDrawing>>]_vars

\* a circle was drawn and ended by mouse-up, and the mouse-leave that
\* followed committed nothing
C23_Witness ==
    /\ tool = "circle"
    /\ lastOp = "stopDrawing"
    /\ ~prev.isDrawing
    /\ prev.after = "stopDrawing"
    /\ prev.length = Len(history)
    /\ At(history, historyIndex).obj = commits
    /\ At(history, historyIndex).imageData = surface
    /\ surface # White

\* ------------------------------------------------------------------------
\* Properties of the server-side fallback
\* ------------------------------------------------------------------------

\* C24: a guessImage of the server called while OPENAI_API_KEY is not set
\* never calls callOpenAI, neither at once nor later, and for an image
\* string it has resolved when it returns to its caller, with success true
\* and a guess of the fallback pools.
C24_NoKeyNoRemoteCall ==
    /\ [][\A r \in ServerRequests :
             (sreq[r].pc = "idle" /\ sreq'[r].pc # "idle" /\ ~apiKey)
                => /\ sreq'[r].api = "none"
                   /\ sreq'[r].image.isString
                         => /\ sreq'[r].pc = "done"
                            /\ sreq'[r].returns = 1
                            /\ sreq'[r].result.success
                            /\ sreq'[r].result.guess \in FallbackGuesses]_vars
    /\ [][\A r \in ServerRequests :
             (sreq[r].pc # "idle" /\ sreq[r].api = "none")
                => sreq'[r].api = "none" /\ sreq'[r].pc = sreq[r].pc]_vars

\* a call made without the key has resolved from the pool of small images,
\* and the key was set afterwards
C24_Witness ==
    \E r \in ServerRequests :
        /\ sreq[r].pc = "done"
        /\ sreq[r].api = "none"
        /\ ~sreq[r].reason.given
        /\ sreq[r].result.success
        /\ sreq[r].result.guess \in Range(smallImageGuesses)
        /\ apiKey

\* ------------------------------------------------------------------------
\* Properties of the health check and of the mode
\* ------------------------------------------------------------------------

\* C25: no step of a health check, whatever its outcome and whatever guess
\* requests are in flight, changes the mode of the service or a request;
\* and a guessImage call attempts the remote call exactly when the mode of
\* the service is online, whatever the health checks have reported.
C25_HealthIsAdvisory ==
    /\ [][health' # health
            => (isOnlineMode' = isOnlineMode /\ req' = req)]_vars
    /\ [][\A r \in Requests :
             (req[r].pc = "idle" /\ req'[r].pc # "idle")
                => /\ req'[r].online = isOnlineMode
                   /\ (req'[r].fetches = 1) <=> isOnlineMode
                   /\ (req'[r].pc = "fetching") <=> isOnlineMode]_vars

\* a health check has failed and the page shows offline, another check is
\* in flight, and a guessImage call is attempting the remote call
C25_Witness ==
    \E c, k \in Checks, r \in Requests :
        /\ health[c].pc = "done"
        /\ ~health[c].value
        /\ health[k].pc = "fetching"
        /\ ~hook.isOnline
        /\ isOnlineMode
        /\ req[r].pc = "fetching"

CaughtErrors ==
    {rethrown(e) : e \in RemoteErrors}
        \cup {[isError |-> TRUE, message |-> TimeoutMessage]}

\* C27: the fallback of the server does not depend on the kind of remote
\* failure.  For a call that awaits the race, any two errors the catch can
\* receive (authentication, quota, rate limit, transport, timeout) give,
\* with the same random draw, the same guess, confidence and suggestions;
\* and a fallback returned from the catch has the confidence the image
\* alone decides and the four fixed suggestions.
C27_FallbackIgnoresCategory ==
    \A r \in ServerRequests :
        /\ sreq[r].pc = "racing"
              => \A e1, e2 \in CaughtErrors, rnd \in Randoms :
                    caught(sreq[r], e1, rnd).result
                       = caught(sreq[r], e2, rnd).result
        /\ (sreq[r].pc = "done" /\ sreq[r].reason.given)
              => /\ sreq[r].result.confidence
                       = (IF sreq[r].image.prefix THEN 70 ELSE 60)
                 /\ sreq[r].result.suggestions = smartSuggestions

\* an authentication failure was answered with the result the timeout
\* would have been answered with
C27_Witness ==
    \E r \in ServerRequests :
        /\ sreq[r].pc = "done"
        /\ sreq[r].reason.message = AuthMessage
        /\ \E rnd \in Randoms :
              caught([sreq[r] EXCEPT !.pc = "racing", !.returns = 0],
                     [isError |-> TRUE, message |-> TimeoutMessage],
                     rnd).result = sreq[r].result

\* the pool getIntelligentMockResponse is claimed to choose for an image
PoolOf(image) ==
    IF image.length > 100000 THEN largeImageGuesses
    ELSE IF image.length < 10000 THEN smallImageGuesses
    ELSE defaultGuesses

\* C28: every fallback result of the server has its guess in the pool the
\* length of the image selects: the pool of large images above 100000, the
\* pool of small images below 10000, the default pool from 10000 to 100000,
\* both ends included; the three pools share no guess.
C28_PoolByLength ==
    /\ \A r \in ServerRequests :
          (sreq[r].pc = "done" /\ sreq[r].api # "fulfilled")
             => sreq[r].result.guess \in Range(PoolOf(sreq[r].image))
    /\ Range(largeImageGuesses) \cap Range(smallImageGuesses) = {}
    /\ Range(largeImageGuesses) \cap Range(defaultGuesses) = {}
    /\ Range(smallImageGuesses) \cap Range(defaultGuesses) = {}

\* fallbacks at the boundary length 100000: from the default pool
C28_Witness ==
    \E r \in ServerRequests :
        /\ sreq[r].pc = "done"
        /\ sreq[r].reason.given
        /\ sreq[r].image.length = 100000
        /\ sreq[r].result.guess \in Range(defaultGuesses)
        /\ sreq[r].result.guess = defaultGuesses[Len(defaultGuesses)]

\* C29: when the remote call succeeds while guessImage awaits it, the guess
\* is the trimmed answer, or the fixed text when the trimmed answer is empty,
\* and the confidence follows the length of that guess: 70 below 5, 80 from
\* 5 to 20, 90 above 20 (hundredths).
C29_ConfidenceBands ==
    [][\A r \in ServerRequests, response \in RemoteResponses,
          rnd \in Randoms :
          (OpenAIResolves(r, response, rnd) /\ response.choices
              /\ sreq[r].pc = "racing")
             => LET answer == trim(response.content)
                    answered == sreq'[r].result
                IN  /\ sreq'[r].pc = "done"
                    /\ answered.success
                    /\ answered.guess = IF Len(answer) = 0
                                      THEN UnrecognizedGuess ELSE answer
                    /\ answered.confidence
                          = IF Len(answered.guess) < 5 THEN 70
                            ELSE IF Len(answered.guess) <= 20 THEN 80
                            ELSE 90]_vars

\* an empty answer was replaced by the fixed text, and the band is the one
\* of the fixed text
C29_Witness ==
    \E r \in ServerRequests :
        /\ sreq[r].pc = "done"
        /\ sreq[r].api = "fulfilled"
        /\ ~sreq[r].reason.given
        /\ sreq[r].result.guess = UnrecognizedGuess
        /\ sreq[r].result.confidence = 80

\* C30: every result of guessImage, of the server and of the browser,
\* carries as processingTime the time from the start of the call to the
\* result, Date.now() - startTime.  It does not hold: the server without a
\* key returns the result of getIntelligentMockResponse as it is, and the
\* browser returns the result of getMockResponse as it is; both carry a
\* number made from Math.random() alone.
C30_ProcessingTimeIsElapsed ==
    /\ \A r \in ServerRequests :
          sreq[r].pc = "done" => sreq[r].result.processingTime = "elapsed"
    /\ \A r \in Requests :
          req[r].pc = "done" => req[r].response.processingTime = "elapsed"

\* C37: undo and redo leave the history as it is, its length and every
\* entry; of the canvas state only the cursor and the pixels may change.
C37_UndoRedoKeepHistory ==
    [][(Undo \/ Redo)
          => /\ history' = history
             /\ Len(history') = Len(history)
             /\ \A k \in 1..Len(history) : history'[k] = history[k]
             /\ UNCHANGED <<isDrawing, tool, now, commits, draws>>]_vars

\* an undo moved the cursor back in a history it left whole: there is an
\* entry to redo
C37_Witness ==
    /\ lastOp = "undo"
    /\ historyIndex = prev.historyIndex - 1
    /\ Len(history) = prev.length
    /\ historyIndex < Len(history) - 1
    /\ surface = At(history, historyIndex).imageData

\* C32: the timestamps of the history increase strictly from each entry to
\* the next.  It does not hold: saveToHistory stamps an entry with Date.now()
\* and compares it with nothing, so two commits within one millisecond
\* leave neighbours with the same timestamp.
C32_TimestampsIncrease ==
    \A k \in 1..(Len(history) - 1) :
        history[k].timestamp < history[k + 1].timestamp

\* C33: whenever no stroke is in progress the canvas shows the snapshot at
\* the cursor, and the fresh transparent canvas while the history is empty.
\* It does not hold: Escape during a stroke ends the stroke with neither a
\* commit nor a repaint, and the pixels of the stroke stay on the canvas.
C33_SurfaceIsCurrent ==
    ~isDrawing
       => IF Len(history) = 0
          THEN surface = Transparent
          ELSE /\ historyIndex \in 0..(Len(history) - 1)
               /\ surface = At(history, historyIndex).imageData

\* C34: no timeoutPromise of guessImage rejects with no handler attached.
\* It does not hold: the promise and its timer are created before the test
\* of the key, and the branch without a key returns before Promise.race
\* attaches a handler; when the timer fires the rejection is unhandled.
C34_TimeoutIsObserved ==
    \A r \in ServerRequests : ~sreq[r].unhandled

\* C35: whenever the indicator state.isOnline is true the service is in
\* online mode.  It does not hold: a health check that was started online
\* and is answered after the button took the service offline sets the
\* indicator to response.ok without looking at the mode.
C35_IndicatorImpliesOnline ==
    hook.isOnline => isOnlineMode

\* C36: isAnalyzing is set exactly while a call of analyzeImage is pending,
\* and every call that started comes to its end with isAnalyzing cleared.
\* The second half does not hold: analyzeImage awaits guessImage, which
\* stays pending when the body of the response never completes.
C36_AnalyzingEnds ==
    /\ [](hook.isAnalyzing <=> pending # {})
    /\ \A a \in Analyses :
          (analysis[a].pc \in {"compressing", "guessing"})
             ~> (analysis[a].pc = "over" /\ ~hook.isAnalyzing)

\* ------------------------------------------------------------------------
\* Properties of the Express side
\* ------------------------------------------------------------------------

C38_GetRespectsExpiry ==
    [][/\ \A key \in Keys :
             CacheGet(key)
                => /\ got'.value = IF store[key].present
                                         /\ clock <= store[key].expiry
                                     THEN store[key].data ELSE Null
                   /\ (store[key].present /\ clock > store[key].expiry)
                         => ~store'[key].present
                   /\ (store[key].present /\ clock <= store[key].expiry)
                         => store'[key] = store[key]
                   /\ \A k \in Keys \ {key} : store'[k] = store[k]
       /\ \A key \in Keys, data \in CachedValues,
             ttl \in Ttls :
             CacheSet(key, data, ttl)
                => /\ store'[key].present
                   /\ store'[key].data = data
                   /\ store'[key].expiry = clock + ttl
                   /\ \A k \in Keys \ {key} : store'[k] = store[k]]_vars

\* get returned the data of an entry at its expiry time, an entry that had
\* replaced an older one
C38_Witness ==
    /\ got.called
    /\ got.value = Body(1)
    /\ store[got.key].present
    /\ store[got.key].expiry = clock
    /\ store[got.key].timestamp > 0

\* C39: a request that is not a GET runs its handler and neither reads nor
\* writes the cache.  A GET whose key, method-url, has an entry that is not
\* past its expiry time is answered with 200 and the data of the entry, and
\* its handler does not run.  Any other GET runs its handler; the body is
\* stored under the key, with the time to live of the middleware, exactly
\* when the handler answered with status 200.  No request touches another
\* key.
C39_CachesGet200Only ==
    [][\A method \in Methods, url \in Urls, status \in Statuses :
          WebRequest(method, url, status)
             => LET key == cacheKey(method, url)
                    valid == /\ key \in Keys
                             /\ store[key].present
                             /\ clock <= store[key].expiry
                IN  /\ method # "GET"
                          => /\ store' = store
                             /\ got' = got
                             /\ web'.invoked /\ ~web'.hit
                    /\ (method = "GET" /\ valid)
                          => /\ web'.hit /\ ~web'.invoked
                             /\ web'.served = web.served
                             /\ web'.status = 200
                             /\ web'.body = store[key].data
                             /\ store' = store
                    /\ (method = "GET" /\ ~valid)
                          => /\ web'.invoked /\ ~web'.hit
                             /\ web'.served = web.served + 1
                             /\ store'[key].present <=> (web'.status = 200)
                             /\ web'.status = 200
                                   => /\ store'[key].data = web'.body
                                      /\ store'[key].expiry
                                            = clock + MiddlewareTtl
                    /\ \A k \in Keys \ {key} : store'[k] = store[k]]_vars

\* the second GET of a path was answered from the cache at the expiry time
\* of the entry, with the body the first one had stored
C39_Witness ==
    /\ web.hit
    /\ web.count = 2
    /\ web.served = 1
    /\ web.body = Body(1)
    /\ store[cacheKey(web.method, web.url)].expiry = clock
    /\ clock > 0

====
